---- MODULE Spec2Model ----
(***************************************************************************)
(* State-machine model of the classical-Chinese teaching assistant:        *)
(*   src/src/App.tsx (the App component, second listing, lines 448-1878)   *)
(*   src/unnamed/part_004 (utils/api: requests, normalizers, image         *)
(*   pipeline).                                                            *)
(* Text is a sequence of characters, JSON values are tagged records, an    *)
(* asynchronous handler is a task in the bag `tasks` that is resumed by    *)
(* the action modelling the settlement of the promise it awaits.           *)
(***************************************************************************)
EXTENDS Integers, Sequences, FiniteSets, Bags, TLC

\* ------------------------------------------------------------------ bounds
\* Number of asynchronous handler runs (runs that reach their first await)
\* one behaviour may start.
MaxRuns == 2
MaxEdits == 2

\* Largest sentence count and largest character count the scene-count
\* heuristic is applied to.
MaxSentences == 12
MaxCharacters == 700

\* Longest reply text tryParseJson is applied to, in characters.
MaxReplyLen == 6

\* Longest delimiter-joined string a normalizer is given for a list field.
\* Longest scene list the prompt request is answered with.
MaxScenesAnswered == 9

MaxJoinedLen == 4

\* ------------------------------------------------------------------- text
\* JavaScript String.prototype.trim on a sequence of characters.
IsSpace(c) == c \in {" ", "\t", "\n", "\r"}

RECURSIVE TrimStart(_)
TrimStart(s) ==
  IF s # <<>> /\ IsSpace(Head(s)) THEN TrimStart(Tail(s)) ELSE s

RECURSIVE TrimEnd(_)
TrimEnd(s) ==
  IF s # <<>> /\ IsSpace(s[Len(s)]) THEN TrimEnd(SubSeq(s, 1, Len(s) - 1)) ELSE s

Trim(s) == TrimEnd(TrimStart(s))

\* JavaScript truthiness of a string: the empty string is falsy.
Truthy(s) == s # <<>>

\* ------------------------------------------------------------ JSON values
\* A JSON value (or JavaScript undefined) as a tagged record; an object is a
\* function from its own property names to values.
JUndef == [t |-> "undef"]
JNull == [t |-> "null"]
JNum(txt) == [t |-> "num", v |-> txt]
JStr(s) == [t |-> "str", v |-> s]
JArr(a) == [t |-> "arr", v |-> a]
JObj(f) == [t |-> "obj", v |-> f]

IsStr(j) == j.t = "str"
IsArr(j) == j.t = "arr"

\* JavaScript truthiness of a JSON value (the !payload tests).
JTruthy(j) ==
  CASE j.t = "undef" -> FALSE
    [] j.t = "null" -> FALSE
    [] j.t = "str" -> j.v # <<>>
    [] j.t = "num" -> j.v # <<"0">>
    [] OTHER -> TRUE

\* Property read o.name: undefined unless o is an object that has the property.
Field(o, name) ==
  IF o.t = "obj" /\ name \in DOMAIN o.v THEN o.v[name] ELSE JUndef

\* String(value) for a value that is neither a string nor null/undefined.
ObjectText == <<"[", "o", "]">>

RECURSIVE JoinComma(_)
\* Array.prototype.join(',') of already stringified elements.
JoinComma(ss) ==
  IF ss = <<>> THEN <<>>
  ELSE IF Len(ss) = 1 THEN ss[1]
  ELSE ss[1] \o <<",">> \o JoinComma(Tail(ss))

RECURSIVE StringOf(_)
StringOf(j) ==
  CASE j.t = "str" -> j.v
    [] j.t = "num" -> j.v
    [] j.t = "arr" ->
         JoinComma([i \in 1..Len(j.v) |->
            IF j.v[i].t \in {"undef", "null"} THEN <<>> ELSE StringOf(j.v[i])])
    [] j.t = "undef" -> <<"u">>
    [] j.t = "null" -> <<"n">>
    [] OTHER -> ObjectText

\* Sequence helpers standing for Array.prototype.map / filter.
RECURSIVE SelectNonEmpty(_)
SelectNonEmpty(ss) ==
  IF ss = <<>> THEN <<>>
  ELSE IF Len(Head(ss)) > 0 THEN <<Head(ss)>> \o SelectNonEmpty(Tail(ss))
  ELSE SelectNonEmpty(Tail(ss))

\* The separators of /\r?\n|[；;]+/ ; "fw;" stands for the full-width semicolon.
IsSeparator(c) == c \in {"\n", ";", "fw;"}

RECURSIVE SplitFrom(_, _)
\* String.prototype.split on the separators: cur is the segment being read.
SplitFrom(s, cur) ==
  IF s = <<>> THEN <<cur>>
  ELSE IF Len(s) >= 2 /\ s[1] = "\r" /\ s[2] = "\n"
    THEN <<cur>> \o SplitFrom(SubSeq(s, 3, Len(s)), <<>>)
  ELSE IF IsSeparator(Head(s)) THEN <<cur>> \o SplitFrom(Tail(s), <<>>)
  ELSE SplitFrom(Tail(s), Append(cur, Head(s)))

SplitSegments(s) == SplitFrom(s, <<>>)

normalizeStringArray(value) ==
  IF IsArr(value)
    THEN SelectNonEmpty([i \in 1..Len(value.v) |->
            IF IsStr(value.v[i]) THEN Trim(value.v[i].v) ELSE <<>>])
  ELSE IF IsStr(value)
    THEN LET segs == SplitSegments(value.v)
         IN SelectNonEmpty([i \in 1..Len(segs) |-> Trim(segs[i])])
  ELSE <<>>

toNormalizedString(value) ==
  IF IsStr(value) THEN Trim(value.v)
  ELSE IF value.t \in {"null", "undef"} THEN <<>>
  ELSE Trim(StringOf(value))

toNormalizedStringArray(value) ==
  IF ~IsArr(value) THEN <<>>
  ELSE SelectNonEmpty([i \in 1..Len(value.v) |-> toNormalizedString(value.v[i])])

\* ------------------------------------------------------ text measurements
\* countCharacters: content.replace(/\s+/g, '').length
countCharacters(content) == Len(SelectSeq(content, LAMBDA c : ~IsSpace(c)))

\* The separators of /[\u3002\uff0c\uff1b\u3001,;\n]+/ ; "fw." "fw," "fw;"
\* and "fwe" stand for the full-width full stop, comma and semicolon and for
\* the enumeration comma.
IsSentenceEnd(c) == c \in {"fw.", "fw,", "fw;", "fwe", ",", ";", "\n"}

RECURSIVE SentencesFrom(_, _)
SentencesFrom(s, cur) ==
  IF s = <<>> THEN <<cur>>
  ELSE IF IsSentenceEnd(Head(s)) THEN <<cur>> \o SentencesFrom(Tail(s), <<>>)
  ELSE SentencesFrom(Tail(s), Append(cur, Head(s)))

splitSentences(content) ==
  IF ~Truthy(content) THEN <<>>
  ELSE LET segments == SentencesFrom(content, <<>>)
       IN SelectNonEmpty([i \in 1..Len(segments) |-> Trim(segments[i])])

\* Math.round(n / d) for n >= 0 and d > 0: halves are rounded up.
Round(n, d) == (2 * n + d) \div (2 * d)

Max(a, b) == IF a >= b THEN a ELSE b
Min(a, b) == IF a <= b THEN a ELSE b

\* The character signal of computeImageCount the wrong way round.
scaledCountInverted(characters) == Min(8, Max(4, 12 - Round(characters, 80)))

\* const scaled = Math.min(8, Math.max(4, Math.round(characters / 80)))
scaledCount(characters) == Min(8, Max(4, Round(characters, 80)))

\* computeImageCount without its final clamp.
computeImageCountUnclamped(sentences, characters, type) ==
  LET base == IF type = "scene-images" THEN sentences ELSE Max(4, Round(sentences, 2))
  IN Round(base + scaledCount(characters), 2)

\* computeImageCount, given the number of sentences and of characters of its
\* content.
computeImageCount(sentences, characters, type) ==
  LET base == IF type = "scene-images" THEN sentences ELSE Max(4, Round(sentences, 2))
      scaled == scaledCount(characters)
      estimate == Round(base + scaled, 2)
  IN Max(4, Min(8, estimate))

\* ----------------------------------------------------- result normalizers
EMPTY_ANALYSIS == [sentences |-> <<>>]
EMPTY_HISTORY == [overview |-> <<>>, recentEvents |-> <<>>]
EMPTY_COMPARATIVE ==
  [executiveSnapshot |-> <<>>, timelineAnchors |-> <<>>,
   comparatorShortlist |-> <<>>, comparisonMatrix |-> <<>>]

FormFields ==
  {"subjectType", "focalName", "focalYears", "focalCivilization", "focalWork",
   "workDate", "timeWindow", "civilizations", "maxPerRegion", "audience", "length"}

EMPTY_SPACETIME == [f \in FormFields |-> <<>>]

\* The marker a map callback returns for an entry the following filter drops.
Dropped == [dropped |-> TRUE]

RECURSIVE FilterKept(_)
FilterKept(items) ==
  IF items = <<>> THEN <<>>
  ELSE IF Head(items) = Dropped THEN FilterKept(Tail(items))
  ELSE <<Head(items)>> \o FilterKept(Tail(items))

\* Reading a property of null or undefined raises a TypeError.
Unreadable(j) == j.t \in {"null", "undef"}

HasUnreadable(arr) == \E i \in 1..Len(arr) : Unreadable(arr[i])

StringOrEmpty(j) == IF IsStr(j) THEN j.v ELSE <<>>

normalizeAnalysisResult(payload) ==
  IF ~JTruthy(payload) \/ ~IsArr(Field(payload, "sentences")) THEN EMPTY_ANALYSIS
  ELSE LET raw == Field(payload, "sentences").v
           one(sentence) ==
             LET original == StringOrEmpty(Field(sentence, "original"))
                 simplified == StringOrEmpty(Field(sentence, "simplified"))
                 explanation == normalizeStringArray(Field(sentence, "explanation"))
             IN IF ~Truthy(original) /\ ~Truthy(simplified) /\ Len(explanation) = 0
                  THEN Dropped
                  ELSE [original |-> original, simplified |-> simplified,
                        explanation |-> explanation]
       IN [sentences |-> FilterKept([i \in 1..Len(raw) |-> one(raw[i])])]

normalizeAnalysisThrows(payload) ==
  /\ JTruthy(payload)
  /\ IsArr(Field(payload, "sentences"))
  /\ HasUnreadable(Field(payload, "sentences").v)

normalizeHistoricalContext(payload) ==
  IF ~JTruthy(payload) THEN EMPTY_HISTORY
  ELSE [overview |-> StringOrEmpty(Field(payload, "overview")),
        recentEvents |-> normalizeStringArray(Field(payload, "recentEvents"))]

UnnamedFigure == <<"?", "f">>
UnnamedRegion == <<"?", "r">>

OrElse(s, fallback) == IF Truthy(s) THEN s ELSE fallback

MatrixTextFields ==
  <<"figure", "region", "keyWorks", "formGenre", "styleTechnique", "themes",
    "context", "influence">>

normalizeComparativeAnalysis(payload) ==
  IF ~JTruthy(payload) THEN EMPTY_COMPARATIVE
  ELSE
    LET arrayOf(name) ==
          IF IsArr(Field(payload, name)) THEN Field(payload, name).v ELSE <<>>
        anchor(entry) ==
          LET year == toNormalizedString(Field(entry, "year"))
              detail == toNormalizedString(Field(entry, "detail"))
          IN IF Len(year) > 0 \/ Len(detail) > 0
               THEN [year |-> year, detail |-> detail] ELSE Dropped
        figureOf(figure) ==
          LET name == toNormalizedString(Field(figure, "name"))
              hallmarkWorks == toNormalizedStringArray(Field(figure, "hallmarkWorks"))
              rationale == toNormalizedString(Field(figure, "rationale"))
          IN IF ~Truthy(name) /\ Len(hallmarkWorks) = 0 /\ ~Truthy(rationale)
               THEN Dropped
               ELSE [name |-> OrElse(name, UnnamedFigure),
                     hallmarkWorks |-> hallmarkWorks, rationale |-> rationale]
        regionOf(region) ==
          LET regionName == toNormalizedString(Field(region, "region"))
              figuresRaw == IF IsArr(Field(region, "figures"))
                              THEN Field(region, "figures").v ELSE <<>>
              figures == FilterKept([i \in 1..Len(figuresRaw) |-> figureOf(figuresRaw[i])])
          IN IF ~Truthy(regionName) /\ Len(figures) = 0 THEN Dropped
             ELSE [region |-> OrElse(regionName, UnnamedRegion), figures |-> figures]
        rowOf(row) ==
          LET val(name) == toNormalizedString(Field(row, name))
          IN IF \A i \in 1..Len(MatrixTextFields) : ~Truthy(val(MatrixTextFields[i]))
               THEN Dropped
               ELSE [figure |-> OrElse(val("figure"), UnnamedFigure),
                     region |-> OrElse(val("region"), UnnamedRegion),
                     keyWorks |-> val("keyWorks"), formGenre |-> val("formGenre"),
                     styleTechnique |-> val("styleTechnique"), themes |-> val("themes"),
                     context |-> val("context"), influence |-> val("influence")]
        mapped(name, f(_)) ==
          FilterKept([i \in 1..Len(arrayOf(name)) |-> f(arrayOf(name)[i])])
    IN [executiveSnapshot |-> toNormalizedString(Field(payload, "executiveSnapshot")),
        timelineAnchors |-> mapped("timelineAnchors", anchor),
        comparatorShortlist |-> mapped("comparatorShortlist", regionOf),
        comparisonMatrix |-> mapped("comparisonMatrix", rowOf)]

normalizeComparativeThrows(payload) ==
  /\ JTruthy(payload)
  /\ \E name \in {"timelineAnchors", "comparatorShortlist", "comparisonMatrix"} :
        /\ IsArr(Field(payload, name))
        /\ HasUnreadable(Field(payload, name).v)

normalizeSpacetimeSuggestion(payload) ==
  IF ~JTruthy(payload) THEN EMPTY_SPACETIME
  ELSE [f \in FormFields |-> toNormalizedString(Field(payload, f))]

\* ------------------------------------------------- errors and async results
\* An error message: which template it is built from, the result type the
\* template names, and the status code and response body it embeds (0 and the
\* empty text when the template embeds none).
Msg(what, type, status, body) ==
  [what |-> what, type |-> type, status |-> status, body |-> body]

PlainMsg(what) == Msg(what, "", 0, <<>>)

\* A thrown value: every one the code can raise is an instance of Error.
\* rawContent is the reply text a ModelJsonError carries (NoRaw otherwise).
NoRaw == [kind |-> "empty", value |-> [t |-> "undef"]]

Thrown(name, message, rawContent) ==
  [isError |-> TRUE, name |-> name, message |-> message, rawContent |-> rawContent]

ErrorOf(message) == Thrown("Error", message, NoRaw)

\* The settled value of a promise.
Ok(v) == [ok |-> TRUE, value |-> v]
Err(e) == [ok |-> FALSE, error |-> e]

\* ------------------------------------------------------------- HTTP replies
\* What one fetch settles to: a rejection (net = "fail") or a response with a
\* status, the body read as text, and the body read as JSON (data.valid is
\* false when the body is no JSON; data.message is choices[0].message).
ResponseOk(reply) == reply.status >= 200 /\ reply.status <= 299

NoMessage == [present |-> FALSE]

NetFail == [net |-> "fail", status |-> 0, text |-> <<>>,
            data |-> [valid |-> FALSE, message |-> NoMessage]]

HttpReply(status, text, valid, message) ==
  [net |-> "resp", status |-> status, text |-> text,
   data |-> [valid |-> valid, message |-> message]]

FetchFailed == Thrown("TypeError", PlainMsg("fetchFailed"), NoRaw)
BodyNotJson == Thrown("SyntaxError", PlainMsg("bodyNotJson"), NoRaw)
NotReadable == Thrown("TypeError", PlainMsg("readOfNullish"), NoRaw)

\* The text of a model reply, by what tryParseJson makes of it: "empty" is the
\* empty string, "json" is one JSON document and nothing else, "wrapped" is
\* one JSON document with brace-free prose before or after it, "datauri"
\* holds a data:image URI, "prose" holds none of these.  value is the value of
\* the document.
ModelText(kind, value) == [kind |-> kind, value |-> value]

EmptyText == ModelText("empty", JUndef)

ContentUndef == [t |-> "undef"]
ContentStr(text) == [t |-> "str", v |-> text]
ContentArr(items) == [t |-> "arr", v |-> items]

TextItem(text) == [type |-> "text", text |-> text, image_url |-> JUndef]
ImageItem(payload) == [type |-> "image_url", text |-> EmptyText, image_url |-> payload]

RECURSIVE TextItemsOf(_)
TextItemsOf(items) ==
  IF items = <<>> THEN <<>>
  ELSE IF Head(items).type = "text" THEN <<Head(items).text>> \o TextItemsOf(Tail(items))
  ELSE TextItemsOf(Tail(items))

\* join('\n') of the text items: several items joined are one prose text.
extractTextContent(choiceContent) ==
  IF choiceContent.t = "undef" THEN EmptyText
  ELSE IF choiceContent.t = "str" THEN choiceContent.v
  ELSE LET textItems == TextItemsOf(choiceContent.v)
       IN IF textItems = <<>> THEN EmptyText
          ELSE IF Len(textItems) = 1 THEN textItems[1]
          ELSE ModelText("prose", JUndef)

MessageContent(message) ==
  IF message.present THEN message.content ELSE ContentUndef

\* tryParseJson with the match never failing and the span always parsing.
tryParseJsonNeverThrows(raw) == FALSE

\* The span from the first { to the last } of the text is the document when
\* the document is an object; a document that is a brace-free value (null)
\* has no such span, and neither has brace-free prose.
tryParseJsonThrows(raw) == ~(raw.kind \in {"json", "wrapped"} /\ raw.value.t = "obj")

tryParseJson(raw) == raw.value

\* createHeaders without its test of the key.
createHeadersAccepts(apiKey) == FALSE

createHeadersThrows(apiKey) == ~Truthy(apiKey)

MissingKey == ErrorOf(PlainMsg("missingOpenRouterKey"))

\* requestChatCompletion from the point where its fetch has settled.
requestChatCompletion(reply, resultType, fallbackValue) ==
  IF reply.net = "fail" THEN Err(FetchFailed)
  ELSE IF ~ResponseOk(reply)
    THEN Err(ErrorOf(Msg("requestFailed", resultType, reply.status, reply.text)))
  ELSE IF ~reply.data.valid THEN Err(BodyNotJson)
  ELSE LET rawContent == extractTextContent(MessageContent(reply.data.message))
       IN IF rawContent.kind = "empty" THEN Ok(fallbackValue)
          ELSE IF tryParseJsonThrows(rawContent)
            THEN Err(Thrown("ModelJsonError", PlainMsg("cannotParseReply"), rawContent))
          ELSE Ok(tryParseJson(rawContent))

\* -------------------------------------------------------- feature functions
\* Each feature function is given from the point where its request settled.
\* The fallback values are the EMPTY_* constants as the JSON values they are.
FallbackAnalysis == JObj([sentences |-> JArr(<<>>)])
FallbackHistory == JObj([overview |-> JStr(<<>>), recentEvents |-> JArr(<<>>)])
FallbackComparative ==
  JObj([executiveSnapshot |-> JStr(<<>>), timelineAnchors |-> JArr(<<>>),
        comparatorShortlist |-> JArr(<<>>), comparisonMatrix |-> JArr(<<>>)])
FallbackSpacetime == JObj([f \in FormFields |-> JStr(<<>>)])
FallbackScenes == JObj([scenes |-> JArr(<<>>)])
FallbackPassage == JObj([passage |-> JStr(<<>>)])

generateAnalysis(reply) ==
  LET rawResult == requestChatCompletion(reply, "analysis", FallbackAnalysis)
  IN IF ~rawResult.ok THEN rawResult
     ELSE IF normalizeAnalysisThrows(rawResult.value) THEN Err(NotReadable)
     ELSE LET normalized == normalizeAnalysisResult(rawResult.value)
          IN IF Len(normalized.sentences) = 0
               THEN Err(ErrorOf(PlainMsg("noAnalysisReturned")))
               ELSE Ok(normalized)

\* generateHistoricalContext without its test for an empty result.
generateHistoricalContextUnchecked(reply) ==
  LET rawResult == requestChatCompletion(reply, "history", FallbackHistory)
  IN IF ~rawResult.ok THEN rawResult
     ELSE Ok(normalizeHistoricalContext(rawResult.value))

generateHistoricalContext(reply) ==
  LET rawResult == requestChatCompletion(reply, "history", FallbackHistory)
  IN IF ~rawResult.ok THEN rawResult
     ELSE LET result == normalizeHistoricalContext(rawResult.value)
          IN IF ~Truthy(result.overview) /\ Len(result.recentEvents) = 0
               THEN Err(ErrorOf(PlainMsg("noHistoryReturned")))
               ELSE Ok(result)

generateComparativeAnalysis(reply) ==
  LET rawResult ==
        requestChatCompletion(reply, "comparative-analysis", FallbackComparative)
  IN IF ~rawResult.ok THEN rawResult
     ELSE IF normalizeComparativeThrows(rawResult.value) THEN Err(NotReadable)
     ELSE LET normalized == normalizeComparativeAnalysis(rawResult.value)
          IN IF /\ ~Truthy(normalized.executiveSnapshot)
                /\ Len(normalized.timelineAnchors) = 0
                /\ Len(normalized.comparisonMatrix) = 0
               THEN Err(ErrorOf(PlainMsg("noComparativeReturned")))
               ELSE Ok(normalized)

generateSpacetimeSuggestions(reply) ==
  LET rawResult == requestChatCompletion(reply, "spacetime-hints", FallbackSpacetime)
  IN IF ~rawResult.ok THEN rawResult
     ELSE LET suggestions == normalizeSpacetimeSuggestion(rawResult.value)
              hasContent == \E f \in FormFields : Len(suggestions[f]) > 0
          IN IF ~hasContent THEN Err(ErrorOf(PlainMsg("noSuggestionsReturned")))
             ELSE Ok(suggestions)

\* fetchPassageText's check before its request.
fetchPassageTextRejects(author, workTitle) ==
  ~Truthy(Trim(author)) \/ ~Truthy(Trim(workTitle))

fetchPassageText(reply) ==
  LET result == requestChatCompletion(reply, "passage-fill", FallbackPassage)
  IN IF ~result.ok THEN result
     ELSE IF Unreadable(result.value) THEN Err(NotReadable)
     ELSE LET passage == IF IsStr(Field(result.value, "passage"))
                           THEN Trim(Field(result.value, "passage").v) ELSE <<>>
          IN IF ~Truthy(passage) THEN Err(ErrorOf(PlainMsg("passageNotFound")))
             ELSE Ok(passage)

\* slice(0, 8)
MaxScenesKept == 8

\* generateImagePrompts without the slice to MaxScenesKept entries.
generateImagePromptsUntrimmed(reply) ==
  LET result == requestChatCompletion(reply, "image-prompts", FallbackScenes)
  IN IF ~result.ok THEN result
     ELSE IF Unreadable(result.value) THEN Err(NotReadable)
     ELSE LET scenes == Field(result.value, "scenes")
          IN IF ~IsArr(scenes) \/ Len(scenes.v) = 0
               THEN Err(ErrorOf(PlainMsg("noScenesReturned")))
               ELSE Ok(scenes.v)

generateImagePrompts(reply) ==
  LET result == requestChatCompletion(reply, "image-prompts", FallbackScenes)
  IN IF ~result.ok THEN result
     ELSE IF Unreadable(result.value) THEN Err(NotReadable)
     ELSE LET scenes == Field(result.value, "scenes")
          IN IF ~IsArr(scenes) \/ Len(scenes.v) = 0
               THEN Err(ErrorOf(PlainMsg("noScenesReturned")))
               ELSE Ok(SubSeq(scenes.v, 1,
                         IF Len(scenes.v) < MaxScenesKept THEN Len(scenes.v)
                         ELSE MaxScenesKept))

\* The characters of a reply text used as plain text (author chat).
TextChars(text) ==
  IF text.kind = "empty" THEN <<>>
  ELSE IF text.value.t = "str" THEN text.value.v
  ELSE ObjectText

\* continueAuthorChat's check before its request: turns trimmed and filtered.
sanitizedTurns(turns) ==
  LET trimmed == [i \in 1..Len(turns) |->
                    [role |-> turns[i].role, content |-> Trim(turns[i].content)]]
  IN SelectSeq(trimmed, LAMBDA turn : Len(turn.content) > 0)

continueAuthorChat(reply) ==
  IF reply.net = "fail" THEN Err(FetchFailed)
  ELSE IF ~ResponseOk(reply)
    THEN Err(ErrorOf(Msg("requestFailed", "author-chat", reply.status, reply.text)))
  ELSE IF ~reply.data.valid THEN Err(BodyNotJson)
  ELSE LET reply2 == Trim(TextChars(extractTextContent(MessageContent(reply.data.message))))
       IN IF ~Truthy(reply2) THEN Err(ErrorOf(PlainMsg("authorSilent")))
          ELSE Ok(reply2)

\* ------------------------------------------------------------ image replies
\* A URL by what fetchImageAsBase64 makes of it: none (undefined or the empty
\* string), a data: URI with its payload and declared type, or a remote URL.
NoUrl == [kind |-> "none", base64 |-> "", mime |-> ""]
DataUrl(base64, mime) == [kind |-> "data", base64 |-> base64, mime |-> mime]
RemoteUrl(ref) == [kind |-> "remote", base64 |-> ref, mime |-> ""]

UrlTruthy(url) == url.kind # "none"

\* ImagePayload: a string, or an object with url and image_url (itself a string
\* or an object with url); for a string, url holds the string.
SlotUndef == [t |-> "undef", url |-> NoUrl]
SlotStr(url) == [t |-> "str", url |-> url]
SlotObj(url) == [t |-> "obj", url |-> url]

PayloadUndef == [t |-> "undef", url |-> NoUrl, image_url |-> SlotUndef]
PayloadStr(url) == [t |-> "str", url |-> url, image_url |-> SlotUndef]
PayloadObj(url, slot) == [t |-> "obj", url |-> url, image_url |-> slot]

normalizeImageUrl(payload) ==
  IF payload.t = "undef" \/ (payload.t = "str" /\ ~UrlTruthy(payload.url)) THEN NoUrl
  ELSE IF payload.t = "str" THEN payload.url
  ELSE IF UrlTruthy(payload.url) THEN payload.url
  ELSE IF payload.image_url.t = "str" THEN payload.image_url.url
  ELSE IF payload.image_url.t = "obj" /\ UrlTruthy(payload.image_url.url)
    THEN payload.image_url.url
  ELSE NoUrl

ImageMessage(content, images, token, url) ==
  [present |-> TRUE, content |-> content, images |-> images, token |-> token, url |-> url]

RECURSIVE FirstImageItem(_)
\* content.find(item => item.type === 'image_url')?.image_url
FirstImageItem(items) ==
  IF items = <<>> THEN PayloadUndef
  ELSE IF Head(items).type = "image_url" THEN Head(items).image_url
  ELSE FirstImageItem(Tail(items))

\* requestImageGeneration's test of whether the response holds an image.
hasImage(message) ==
  /\ message.present
  /\ \/ Len(message.images) > 0
     \/ /\ message.content.t = "arr"
        /\ \E i \in 1..Len(message.content.v) : message.content.v[i].type = "image_url"

\* The URL extractImageFromResponse settles on (NoUrl when it throws).
extractImageUrl(message) ==
  IF ~message.present THEN NoUrl
  ELSE
    LET fromImages == IF Len(message.images) > 0
                        THEN normalizeImageUrl(message.images[1]) ELSE NoUrl
        fromItems == IF ~UrlTruthy(fromImages) /\ message.content.t = "arr"
                       THEN normalizeImageUrl(FirstImageItem(message.content.v))
                       ELSE fromImages
        fromText == IF /\ ~UrlTruthy(fromItems)
                       /\ message.content.t = "str"
                       /\ message.content.v.kind = "datauri"
                      THEN message.content.v.value ELSE fromItems
        fromUrl == IF ~UrlTruthy(fromText) /\ UrlTruthy(message.url)
                     THEN message.url ELSE fromText
    IN fromUrl

DefaultMime == "image/png"

parseDataUrl(url) ==
  [base64 |-> url.base64, mimeType |-> IF url.mime = "" THEN DefaultMime ELSE url.mime]

\* What downloading a remote image settles to.
NoBlob == [base64 |-> "", type |-> ""]
DownloadFail == [net |-> "fail", status |-> 0, text |-> <<>>, blob |-> NoBlob]
DownloadReply(status, text, blob) ==
  [net |-> "resp", status |-> status, text |-> text, blob |-> blob]

\* fetchImageAsBase64 from the point where its fetch has settled.
fetchImageAsBase64(reply) ==
  IF reply.net = "fail" THEN Err(FetchFailed)
  ELSE IF ~ResponseOk(reply)
    THEN Err(ErrorOf(Msg("imageDownloadFailed", "", reply.status, <<>>)))
  ELSE Ok([base64 |-> reply.blob.base64,
           mimeType |-> IF reply.blob.type = "" THEN DefaultMime ELSE reply.blob.type])

MissingImageLink == ErrorOf(PlainMsg("noImageLink"))

\* imageResponse without its test of the status.
imageResponseIgnoringStatus(reply, what, resultType) ==
  IF reply.net = "fail" THEN Err(FetchFailed)
  ELSE IF ~reply.data.valid THEN Err(BodyNotJson)
  ELSE Ok(reply.data.message)

\* An image request (generation or edit) from the point where its fetch has
\* settled, up to the point where the image URL is known: an error, or the URL
\* and the token of the message.
imageResponse(reply, what, resultType) ==
  IF reply.net = "fail" THEN Err(FetchFailed)
  ELSE IF ~ResponseOk(reply)
    THEN Err(ErrorOf(Msg(what, resultType, reply.status, reply.text)))
  ELSE IF ~reply.data.valid THEN Err(BodyNotJson)
  ELSE Ok(reply.data.message)

extractImageFromResponse(message) ==
  IF ~UrlTruthy(extractImageUrl(message)) THEN Err(MissingImageLink)
  ELSE Ok([url |-> extractImageUrl(message),
           token |-> IF message.present THEN message.token ELSE JUndef])

\* -------------------------------------------------------------------- state
VARIABLES
  envKey,               \* import.meta.env.VITE_OPENROUTER_API_KEY ?? ''
  author, workTitle, passage,
  analysisResult, historyResult, sceneImages, comparativeResult,
  loading, errors,
  editLoading, editValues, previousImages,
  isAuthorChatOpen, authorChatMessages, chatDraft,
  showSpacetimeParams,
  form,                 \* the eleven spacetime parameter fields
  tasks,                \* bag of handler runs suspended at an await
  requested,            \* a fetch call has been issued
  runs,                 \* number of feature handler runs that reached an await
  edits,                \* number of handleEditImage runs that reached an await
  focus,                \* the part of the page the user works in (see Panels)
  call                  \* the utility function applied last, its arguments and value

inputVars == <<author, workTitle, passage, chatDraft, form, editValues>>
resultVars == <<analysisResult, historyResult, sceneImages, comparativeResult>>
chatVars == <<isAuthorChatOpen, authorChatMessages>>
imageVars == <<editLoading, previousImages>>
netVars == <<tasks, requested, runs, edits>>

appVars == <<envKey, author, workTitle, passage, analysisResult, historyResult,
             sceneImages, comparativeResult, loading, errors, editLoading,
             editValues, previousImages, isAuthorChatOpen, authorChatMessages,
             chatDraft, showSpacetimeParams, form, tasks, requested, runs, edits, focus>>

vars == <<appVars, call>>

\* A bound on the environment: within one behaviour the user works in one part
\* of the page, that is, clicks the buttons and types into the fields of one
\* panel.  The panels partition the seven feature keys.
Panels == {"text", "spacetime", "chat", "images", "cards"}

PanelOf(feature) ==
  CASE feature \in {"analysis", "history", "passage-fill"} -> "text"
    [] feature \in {"spacetime", "spacetime-fill"} -> "spacetime"
    [] feature = "author-chat" -> "chat"
    [] feature = "scene-images" -> "images"

\* The image cards (edit box, edit and revert buttons of each image) are a panel
\* of their own; it includes the illustration button, which fills it.
CardsPanel == "cards"

Features ==
  {"analysis", "history", "scene-images", "passage-fill", "spacetime",
   "author-chat", "spacetime-fill"}

\* useState(null)
Null == [null |-> TRUE]

\* errors[key] === undefined
NoError == [type |-> "none"]

\* editLoading, editValues and previousImages are objects keyed by image id.
NoEntries == [key \in {} |-> key]

Has(map, key) == key \in DOMAIN map

\* { ...prev, [key]: value }
Put(map, key, value) ==
  [k \in DOMAIN map \cup {key} |-> IF k = key THEN value ELSE map[k]]

\* delete updated[key]
Delete(map, key) == [k \in DOMAIN map \ {key} |-> map[k]]

\* No utility function has been applied.
NoCall == [fn |-> "none"]

initialLoading == [k \in Features |-> FALSE]
initialErrors == [k \in Features |-> NoError]

initialForm ==
  [f \in FormFields |->
     CASE f = "subjectType" -> <<"p", "o", "e", "t">>
       [] f = "timeWindow" -> <<"5", "0">>
       [] f = "civilizations" -> <<"J", "K">>
       [] f = "maxPerRegion" -> <<"2">>
       [] f = "audience" -> <<"h", "s">>
       [] f = "length" -> <<"9", "0", "0">>
       [] OTHER -> <<>>]

\* The values the build-time key can have: unset, blank, set (with padding).
EnvKeys == {<<>>, <<" ">>, <<" ", "k">>}

API_KEY == Trim(envKey)

\* The state after construction, but for the passage box holding typed.
InitWith(typed) ==
  /\ envKey \in EnvKeys
  /\ focus \in Panels
  /\ author = <<>> /\ workTitle = <<>> /\ passage = typed
  /\ analysisResult = Null /\ historyResult = Null
  /\ sceneImages = <<>> /\ comparativeResult = Null
  /\ loading = initialLoading /\ errors = initialErrors
  /\ editLoading = NoEntries /\ editValues = NoEntries /\ previousImages = NoEntries
  /\ isAuthorChatOpen = FALSE /\ authorChatMessages = <<>> /\ chatDraft = <<>>
  /\ showSpacetimeParams = FALSE
  /\ form = initialForm
  /\ tasks = EmptyBag /\ requested = FALSE /\ runs = 0 /\ edits = 0
  /\ call = NoCall

Init == InitWith(<<>>)

\* ------------------------------------------------------------ state setters
\* resetErrorsFor replacing the whole record.
resetErrorsForAll(errs, key) == [k \in DOMAIN errs |-> NoError]

resetErrorsFor(errs, key) == [errs EXCEPT ![key] = NoError]

setErrorCode(errs, key, code) ==
  [errs EXCEPT ![key] = [type |-> "code", code |-> code]]

setCustomError(errs, key, message) ==
  [errs EXCEPT ![key] = [type |-> "custom", message |-> message]]

\* setLoadingFor that never clears a flag.
setLoadingForOn(load, key, value) == [load EXCEPT ![key] = TRUE]

setLoadingFor(load, key, value) == [load EXCEPT ![key] = value]

\* A catch clause that records nothing.
CatchErrorSilently(errs, key, error, fallbackCode) == errs

\* The catch clause shared by the handlers.
CatchError(errs, key, error, fallbackCode) ==
  IF error.isError THEN setCustomError(errs, key, error.message)
  ELSE setErrorCode(errs, key, fallbackCode)

\* guardInputs without its test of the passage.
guardInputsKeyOnly == IF ~Truthy(API_KEY) THEN "missingApiKey" ELSE "ok"

\* guardInputs: the error code it records, or "ok" when it returns true.
guardInputs ==
  IF ~Truthy(API_KEY) THEN "missingApiKey"
  ELSE IF ~Truthy(Trim(passage)) THEN "missingPassage"
  ELSE "ok"

disableActions == ~Truthy(Trim(passage)) \/ ~Truthy(API_KEY)

\* A handler run suspended at the await of one fetch.
Task(feature, pc) == [feature |-> feature, pc |-> pc]

Suspended(task, feature, pc) ==
  task.pc = pc /\ task.feature = feature /\ BagIn(task, tasks)

\* The handler passes its checks, sets loading and awaits: the fetch is issued
\* unless createHeaders throws, in which case the catch and finally clauses run
\* before any other event.
Await(key, task, fallbackCode) ==
  IF createHeadersThrows(API_KEY)
    THEN /\ errors' = CatchError(resetErrorsFor(errors, key), key, MissingKey, fallbackCode)
         /\ UNCHANGED <<loading, tasks, requested, runs, edits>>
    ELSE /\ errors' = resetErrorsFor(errors, key)
         /\ loading' = setLoadingFor(loading, key, TRUE)
         /\ tasks' = tasks (+) SetToBag({task})
         /\ requested' = TRUE
         /\ runs' = runs + 1
         /\ UNCHANGED edits

\* ------------------------------------------------------------ reply domains
BadStatuses == {404, 500}
ErrorBody == <<"b">>

TextMessage(text) == ImageMessage(ContentStr(text), <<>>, JUndef, NoUrl)

\* The replies a chat-completions request for JSON can get, given the JSON
\* values the model may answer with.
ChatReplies(payloads) ==
  {NetFail}
  \cup {HttpReply(st, ErrorBody, FALSE, NoMessage) : st \in BadStatuses}
  \cup {HttpReply(200, <<>>, FALSE, NoMessage), HttpReply(200, <<>>, TRUE, NoMessage),
        HttpReply(200, <<>>, TRUE, TextMessage(EmptyText)),
        HttpReply(200, <<>>, TRUE, TextMessage(ModelText("prose", JStr(<<"h", "m">>))))}
  \cup {HttpReply(200, <<>>, TRUE, TextMessage(ModelText(kind, p))) :
          kind \in {"json", "wrapped"}, p \in payloads}

Sentence(original, simplified, explanation) ==
  JObj([original |-> original, simplified |-> simplified, explanation |-> explanation])

AnalysisPayloads ==
  { JObj([sentences |-> JArr(<<Sentence(JStr(<<"o">>), JStr(<<"s">>), JArr(<<JStr(<<"e">>)>>))>>)]),
    JObj([sentences |-> JArr(<<Sentence(JStr(<<"o">>), JNull, JStr(<<"e", ";", " ", "f">>)),
                               Sentence(JStr(<<>>), JStr(<<>>), JArr(<<>>))>>)]),
    JObj([sentences |-> JArr(<<>>)]),
    JObj([other |-> JStr(<<"x">>)]),
    JObj([sentences |-> JArr(<<Sentence(JNum(<<"5">>), JUndef, JArr(<<JStr(<<" ">>), JNull>>))>>)]),
    JObj([sentences |-> JArr(<<JNull>>)]),
    JNull }

AnalysisReplies == ChatReplies(AnalysisPayloads)

HistoryPayloads ==
  { JObj([overview |-> JStr(<<"v">>), recentEvents |-> JArr(<<JStr(<<"e">>)>>)]),
    JObj([overview |-> JNum(<<"5">>), recentEvents |-> JStr(<<"e", "\n", "f">>)]),
    JObj([overview |-> JStr(<<>>), recentEvents |-> JArr(<<JStr(<<" ">>)>>)]),
    JObj([other |-> JStr(<<"x">>)]),
    JNull }

HistoryReplies == ChatReplies(HistoryPayloads)

\* ----------------------------------------------------------------- handlers
handleAnalysis ==
  /\ focus = PanelOf("analysis")
  /\ runs < MaxRuns
  /\ IF guardInputs # "ok"
       THEN /\ errors' = setErrorCode(errors, "analysis", guardInputs)
            /\ UNCHANGED <<loading, netVars>>
       ELSE Await("analysis", Task("analysis", "generateAnalysis"), "analysisFailed")
  /\ UNCHANGED <<envKey, call, focus, inputVars, resultVars, chatVars, imageVars, showSpacetimeParams>>

\* The analysis button left enabled while its request is pending.
clickAnalysisWhileLoading == ~disableActions /\ handleAnalysis

\* The analysis button, unless disabled.
clickAnalysis ==
  /\ ~(disableActions \/ loading["analysis"])
  /\ handleAnalysis

handleAnalysisSettledStep(task, reply) ==
  /\ Suspended(task, "analysis", "generateAnalysis")
  /\ LET result == generateAnalysis(reply)
    IN /\ analysisResult' = IF result.ok THEN result.value ELSE analysisResult
       /\ errors' = IF result.ok THEN errors
                    ELSE CatchError(errors, "analysis", result.error, "analysisFailed")
       /\ loading' = setLoadingFor(loading, "analysis", FALSE)
       /\ tasks' = tasks (-) SetToBag({task})
       /\ UNCHANGED <<envKey, call, focus, inputVars, historyResult, sceneImages, comparativeResult,
                      chatVars, imageVars, showSpacetimeParams, requested, runs, edits>>

handleHistory ==
  /\ focus = PanelOf("history")
  /\ runs < MaxRuns
  /\ IF guardInputs # "ok"
       THEN /\ errors' = setErrorCode(errors, "history", guardInputs)
            /\ UNCHANGED <<loading, netVars>>
       ELSE Await("history", Task("history", "generateHistoricalContext"), "historyFailed")
  /\ UNCHANGED <<envKey, call, focus, inputVars, resultVars, chatVars, imageVars, showSpacetimeParams>>

\* The history button, unless disabled.
clickHistory ==
  /\ ~(disableActions \/ loading["history"])
  /\ handleHistory

handleHistorySettledStep(task, reply) ==
  /\ Suspended(task, "history", "generateHistoricalContext")
  /\ LET result == generateHistoricalContext(reply)
    IN /\ historyResult' = IF result.ok THEN result.value ELSE historyResult
       /\ errors' = IF result.ok THEN errors
                    ELSE CatchError(errors, "history", result.error, "historyFailed")
       /\ loading' = setLoadingFor(loading, "history", FALSE)
       /\ tasks' = tasks (-) SetToBag({task})
       /\ UNCHANGED <<envKey, call, focus, inputVars, analysisResult, sceneImages, comparativeResult,
                      chatVars, imageVars, showSpacetimeParams, requested, runs, edits>>

SpacetimeCoreFields == {"focalName", "focalYears", "focalCivilization"}

ComparativePayloads ==
  { JObj([executiveSnapshot |-> JStr(<<" ", "s">>),
          timelineAnchors |-> JArr(<<JObj([year |-> JNum(<<"9">>), detail |-> JStr(<<>>)]),
                                     JObj([year |-> JStr(<<" ">>)])>>),
          comparatorShortlist |->
            JArr(<<JObj([region |-> JStr(<<>>),
                         figures |-> JArr(<<JObj([hallmarkWorks |-> JArr(<<JStr(<<"w">>)>>)])>>)])>>),
          comparisonMatrix |-> JArr(<<JObj([figure |-> JStr(<<"f">>)])>>)]),
    JObj([comparisonMatrix |-> JArr(<<JObj([themes |-> JStr(<<"t">>)])>>)]),
    JObj([comparatorShortlist |-> JArr(<<JObj([region |-> JStr(<<"r">>)])>>)]),
    JObj([executiveSnapshot |-> JStr(<<" ">>),
          timelineAnchors |-> JArr(<<JObj([detail |-> JNull])>>),
          comparisonMatrix |-> JStr(<<"m">>)]),
    JObj([other |-> JStr(<<"x">>)]),
    JNull }

ComparativeReplies == ChatReplies(ComparativePayloads)

handleSpacetimeAnalysis ==
  /\ focus = PanelOf("spacetime")
  /\ runs < MaxRuns
  /\ IF ~showSpacetimeParams
       THEN /\ showSpacetimeParams' = TRUE
            /\ UNCHANGED <<errors, loading, netVars>>
       ELSE /\ UNCHANGED showSpacetimeParams
            /\ IF guardInputs # "ok"
                 THEN /\ errors' = setErrorCode(errors, "spacetime", guardInputs)
                      /\ UNCHANGED <<loading, netVars>>
               ELSE IF \E f \in SpacetimeCoreFields : ~Truthy(Trim(form[f]))
                 THEN /\ errors' = setErrorCode(errors, "spacetime", "missingSpacetimeCore")
                      /\ UNCHANGED <<loading, netVars>>
               ELSE Await("spacetime", Task("spacetime", "generateComparativeAnalysis"),
                          "spacetimeBuildFailed")
  /\ UNCHANGED <<envKey, call, focus, inputVars, resultVars, chatVars, imageVars>>

\* The comparative-build button, unless disabled.
clickSpacetimeAnalysis ==
  /\ ~(disableActions \/ loading["spacetime"])
  /\ handleSpacetimeAnalysis

handleSpacetimeAnalysisSettledStep(task, reply) ==
  /\ Suspended(task, "spacetime", "generateComparativeAnalysis")
  /\ LET result == generateComparativeAnalysis(reply)
    IN /\ comparativeResult' = IF result.ok THEN result.value ELSE comparativeResult
       /\ errors' = IF result.ok THEN errors
                    ELSE CatchError(errors, "spacetime", result.error, "spacetimeBuildFailed")
       /\ loading' = setLoadingFor(loading, "spacetime", FALSE)
       /\ tasks' = tasks (-) SetToBag({task})
       /\ UNCHANGED <<envKey, call, focus, inputVars, analysisResult, historyResult, sceneImages,
                      chatVars, imageVars, showSpacetimeParams, requested, runs, edits>>

PassagePayloads ==
  { JObj([passage |-> JStr(<<" ", "f">>)]),
    JObj([passage |-> JStr(<<" ">>)]),
    JObj([passage |-> JNum(<<"5">>)]),
    JNull }

PassageReplies == ChatReplies(PassagePayloads)

handleFillPassage ==
  /\ focus = PanelOf("passage-fill")
  /\ runs < MaxRuns
  /\ IF ~Truthy(API_KEY)
       THEN /\ errors' = setErrorCode(errors, "passage-fill", "missingApiKey")
            /\ UNCHANGED <<loading, netVars>>
     ELSE IF ~Truthy(Trim(author)) \/ ~Truthy(Trim(workTitle))
       THEN /\ errors' = setErrorCode(errors, "passage-fill", "missingAuthorWork")
            /\ UNCHANGED <<loading, netVars>>
     ELSE IF fetchPassageTextRejects(author, workTitle)
       THEN /\ errors' = CatchError(resetErrorsFor(errors, "passage-fill"), "passage-fill",
                                    ErrorOf(PlainMsg("authorAndWorkRequired")),
                                    "passageFillFailed")
            /\ UNCHANGED <<loading, netVars>>
     ELSE Await("passage-fill", Task("passage-fill", "fetchPassageText"), "passageFillFailed")
  /\ UNCHANGED <<envKey, call, focus, inputVars, resultVars, chatVars, imageVars, showSpacetimeParams>>

\* The passage autofill button, unless disabled.
clickFillPassage ==
  /\ ~(\/ ~Truthy(Trim(author)) \/ ~Truthy(Trim(workTitle))
       \/ ~Truthy(API_KEY) \/ loading["passage-fill"])
  /\ handleFillPassage

handleFillPassageSettledStep(task, reply) ==
  /\ Suspended(task, "passage-fill", "fetchPassageText")
  /\ LET result == fetchPassageText(reply)
    IN /\ passage' = IF result.ok THEN result.value ELSE passage
       /\ errors' = IF result.ok THEN errors
                    ELSE CatchError(errors, "passage-fill", result.error, "passageFillFailed")
       /\ loading' = setLoadingFor(loading, "passage-fill", FALSE)
       /\ tasks' = tasks (-) SetToBag({task})
       /\ UNCHANGED <<envKey, call, focus, author, workTitle, chatDraft, form, editValues, resultVars,
                      chatVars, imageVars, showSpacetimeParams, requested, runs, edits>>

SuggestionPayloads ==
  { JObj([focalName |-> JStr(<<" ", "n">>), focalYears |-> JNum(<<"7">>),
          timeWindow |-> JStr(<<" ">>), audience |-> JNull]),
    JObj([f \in FormFields |-> JStr(<<"y">>)]),
    JObj([focalName |-> JStr(<<" ">>), other |-> JStr(<<"x">>)]),
    JNull }

SuggestionReplies == ChatReplies(SuggestionPayloads)

handleSpacetimeAutofill ==
  /\ focus = PanelOf("spacetime-fill")
  /\ runs < MaxRuns
  /\ showSpacetimeParams' = TRUE
  /\ IF ~Truthy(Trim(author)) /\ ~Truthy(Trim(workTitle))
       THEN /\ errors' = setErrorCode(errors, "spacetime-fill", "missingSpacetimeInput")
            /\ UNCHANGED <<loading, netVars>>
     ELSE IF guardInputs # "ok"
       THEN /\ errors' = setErrorCode(errors, "spacetime-fill", guardInputs)
            /\ UNCHANGED <<loading, netVars>>
     ELSE Await("spacetime-fill", Task("spacetime-fill", "generateSpacetimeSuggestions"),
                "spacetimeSuggestionFailed")
  /\ UNCHANGED <<envKey, call, focus, inputVars, resultVars, chatVars, imageVars>>

\* The parameter autofill button (rendered with the form), unless disabled.
clickSpacetimeAutofill ==
  /\ showSpacetimeParams
  /\ ~(~Truthy(API_KEY) \/ loading["spacetime-fill"] \/ ~Truthy(Trim(passage)))
  /\ handleSpacetimeAutofill

\* The setters of handleSpacetimeAutofill taking every suggestion, empty or not.
applySuggestionsOverwriting(current, suggestions) == suggestions

\* if (suggestions.x) { setX(suggestions.x) }, for each of the form fields.
applySuggestions(current, suggestions) ==
  [f \in FormFields |-> IF Truthy(suggestions[f]) THEN suggestions[f] ELSE current[f]]

handleSpacetimeAutofillSettledStep(task, reply) ==
  /\ Suspended(task, "spacetime-fill", "generateSpacetimeSuggestions")
  /\ LET result == generateSpacetimeSuggestions(reply)
    IN /\ form' = IF result.ok THEN applySuggestions(form, result.value) ELSE form
       /\ errors' = IF result.ok THEN errors
                    ELSE CatchError(errors, "spacetime-fill", result.error,
                                    "spacetimeSuggestionFailed")
       /\ loading' = setLoadingFor(loading, "spacetime-fill", FALSE)
       /\ tasks' = tasks (-) SetToBag({task})
       /\ UNCHANGED <<envKey, call, focus, author, workTitle, passage, chatDraft, editValues, resultVars,
                      chatVars, imageVars, showSpacetimeParams, requested, runs, edits>>

handleOpenAuthorChat ==
  /\ focus = PanelOf("author-chat")
  /\ IF isAuthorChatOpen
       THEN UNCHANGED <<errors, isAuthorChatOpen>>
     ELSE IF ~Truthy(Trim(author))
       THEN /\ errors' = setErrorCode(errors, "author-chat", "missingChatAuthor")
            /\ UNCHANGED isAuthorChatOpen
     ELSE IF guardInputs # "ok"
       THEN /\ errors' = setErrorCode(errors, "author-chat", guardInputs)
            /\ UNCHANGED isAuthorChatOpen
     ELSE /\ errors' = resetErrorsFor(errors, "author-chat")
          /\ isAuthorChatOpen' = TRUE
  /\ UNCHANGED <<envKey, call, focus, inputVars, resultVars, loading, authorChatMessages,
                 imageVars, showSpacetimeParams, netVars>>

\* The chat button, unless disabled.
clickOpenAuthorChat ==
  /\ ~(disableActions \/ loading["author-chat"] \/ isAuthorChatOpen)
  /\ handleOpenAuthorChat

\* The replies an author-chat request can get.
AuthorReplies ==
  {NetFail}
  \cup {HttpReply(st, ErrorBody, FALSE, NoMessage) : st \in BadStatuses}
  \cup {HttpReply(200, <<>>, FALSE, NoMessage), HttpReply(200, <<>>, TRUE, NoMessage),
        HttpReply(200, <<>>, TRUE, TextMessage(ModelText("prose", JStr(<<" ">>)))),
        HttpReply(200, <<>>, TRUE, TextMessage(ModelText("prose", JStr(<<" ", "r">>))))}

\* historyForApi passing the roles of the log on as they are.
historyForApiVerbatim(messages) ==
  [i \in 1..Len(messages) |->
     [role |-> messages[i].role, content |-> messages[i].content]]

\* historyForApi: the log mapped to the turns of the request.
historyForApi(messages) ==
  [i \in 1..Len(messages) |->
     [role |-> IF messages[i].role = "author" THEN "assistant" ELSE "user",
      content |-> messages[i].content]]

handleSendAuthorChat ==
  /\ focus = PanelOf("author-chat")
  /\ runs < MaxRuns
  /\ LET trimmedMessage == Trim(chatDraft)
         userMessage == [role |-> "user", content |-> trimmedMessage]
         nextHistory == Append(authorChatMessages, userMessage)
     IN IF ~Truthy(trimmedMessage)
          THEN UNCHANGED <<errors, authorChatMessages, chatDraft, loading, netVars>>
        ELSE IF ~Truthy(Trim(author))
          THEN /\ errors' = setErrorCode(errors, "author-chat", "missingChatAuthor")
               /\ UNCHANGED <<authorChatMessages, chatDraft, loading, netVars>>
        ELSE IF guardInputs # "ok"
          THEN /\ errors' = setErrorCode(errors, "author-chat", guardInputs)
               /\ UNCHANGED <<authorChatMessages, chatDraft, loading, netVars>>
        ELSE /\ authorChatMessages' = nextHistory
             /\ chatDraft' = <<>>
             /\ IF Len(sanitizedTurns(historyForApi(nextHistory))) = 0
                  THEN /\ errors' = CatchError(resetErrorsFor(errors, "author-chat"),
                                               "author-chat",
                                               ErrorOf(PlainMsg("askFirst")), "chatFailed")
                       /\ UNCHANGED <<loading, netVars>>
                  ELSE Await("author-chat", Task("author-chat", "continueAuthorChat"),
                             "chatFailed")
  /\ UNCHANGED <<envKey, call, focus, author, workTitle, passage, form, editValues, resultVars,
                 isAuthorChatOpen, imageVars, showSpacetimeParams>>

\* The send button (rendered with the chat), unless disabled.
clickSendAuthorChat ==
  /\ isAuthorChatOpen
  /\ ~(loading["author-chat"] \/ ~Truthy(Trim(chatDraft)))
  /\ handleSendAuthorChat

handleSendAuthorChatSettledStep(task, reply) ==
  /\ Suspended(task, "author-chat", "continueAuthorChat")
  /\ LET result == continueAuthorChat(reply)
    IN /\ authorChatMessages' =
            IF result.ok
              THEN Append(authorChatMessages, [role |-> "author", content |-> result.value])
              ELSE authorChatMessages
       /\ errors' = IF result.ok THEN errors
                    ELSE CatchError(errors, "author-chat", result.error, "chatFailed")
       /\ loading' = setLoadingFor(loading, "author-chat", FALSE)
       /\ tasks' = tasks (-) SetToBag({task})
       /\ UNCHANGED <<envKey, call, focus, inputVars, resultVars, isAuthorChatOpen, imageVars,
                      showSpacetimeParams, requested, runs, edits>>

\* ----------------------------------------------------------- image pipeline
\* The messages an image request (generation or edit) can be answered with:
\* an image in images[0], an image_url item in array content, a data: URI
\* inside string content, a bare url field, text only, an images entry that
\* holds no URL.
ProseText == ModelText("prose", JStr(<<"h", "m">>))

ImageInImages ==
  ImageMessage(ContentUndef, <<PayloadObj(NoUrl, SlotObj(DataUrl("A", "image/png")))>>,
               JStr(<<"t">>), NoUrl)
ImageInContent ==
  ImageMessage(ContentArr(<<TextItem(ProseText),
                            ImageItem(PayloadObj(RemoteUrl("R"), SlotUndef))>>),
               <<>>, JUndef, NoUrl)
ImageInText ==
  ImageMessage(ContentStr(ModelText("datauri", DataUrl("A", "image/png"))),
               <<>>, JUndef, NoUrl)
ImageInUrl == ImageMessage(ContentUndef, <<>>, JUndef, DataUrl("A", ""))
ProseOnly == ImageMessage(ContentStr(ProseText), <<>>, JUndef, NoUrl)
ImageEntryWithoutUrl ==
  ImageMessage(ContentUndef, <<PayloadObj(NoUrl, SlotUndef)>>, JUndef, NoUrl)

ImageMessages ==
  {ImageInImages, ImageInContent, ImageInText, ImageInUrl, ProseOnly, ImageEntryWithoutUrl}

ImageReplies ==
  {NetFail}
  \cup {HttpReply(st, ErrorBody, FALSE, NoMessage) : st \in BadStatuses}
  \cup {HttpReply(200, <<>>, FALSE, NoMessage), HttpReply(200, <<>>, TRUE, NoMessage)}
  \cup {HttpReply(200, <<>>, TRUE, message) : message \in ImageMessages}

\* The replies the download of a remote image can get.
DownloadReplies ==
  {DownloadFail}
  \cup {DownloadReply(st, ErrorBody, NoBlob) : st \in BadStatuses}
  \cup {DownloadReply(200, <<>>, [base64 |-> "D", type |-> ""])}

\* The scene lists the prompt request can be answered with.
Scene(title, prompt) == JObj([title |-> title, prompt |-> prompt])

TitledScene == Scene(JStr(<<"s">>), JStr(<<" ", "d">>))
UntitledScene == Scene(JStr(<<>>), JStr(<<"d">>))
PromptlessScene == JObj([title |-> JStr(<<"s">>)])

ScenePayloads ==
  { JObj([scenes |-> JArr(<<TitledScene>>)]),
    JObj([scenes |-> JArr(<<TitledScene, UntitledScene>>)]),
    JObj([scenes |-> JArr(<<TitledScene, PromptlessScene>>)]),
    JObj([scenes |-> JArr(<<>>)]),
    JObj([scenes |-> JStr(<<"x">>)]),
    JNull }

SceneListReplies == ChatReplies(ScenePayloads)

\* `${type}-${index + 1}` for the scene at position index of the list (the
\* positions of a sequence start at 1, those of the array at 0).
AssetId(type, index) == <<type, index>>

\* `场景 ${index + 1}`
DefaultTitle(index) == JStr(<<"#", ToString(index)>>)

\* scene.prompt.trim() throws unless scene.prompt is a string.
promptThrows(scene) == ~IsStr(Field(scene, "prompt"))

PromptUnreadable == Thrown("TypeError", PlainMsg("trimOfNonString"), NoRaw)

\* What is observed of the work on one scene: image requests sent, 2-second
\* and 3-second delays started, the first attempt whose response held an image
\* URL in any of the places extractImageFromResponse reads (0: none so far),
\* the attempt whose response the asset was taken from (0: none so far), the
\* remote downloads sent, and the number of assets held when the work began.
SceneLog(assetsBefore) ==
  [requests |-> 0, retryDelays |-> 0, paceDelays |-> 0, firstImage |-> 0,
   used |-> 0, downloads |-> 0, assetsBefore |-> assetsBefore]

\* A run of generateIllustrations suspended at an await.
PipelineTask(pc, scenes, index, retryCount, assets, token, log) ==
  [feature |-> "scene-images", pc |-> pc, scenes |-> scenes, index |-> index,
   retryCount |-> retryCount, assets |-> assets, token |-> token, log |-> log]

\* Where a resumed run gets to: its next await (sent: fetch calls issued on the
\* way), or the settlement of the promise the handler awaits.
Awaits(task, sent) == [kind |-> "await", task |-> task, sent |-> sent]
Resolved(assets) == [kind |-> "resolved", assets |-> assets]
Rejected(error) == [kind |-> "rejected", error |-> error]

\* A pause before every scene.
NeedsPaceAlways(index) == TRUE

\* The pause before the loop body runs for a scene other than the first.
NeedsPace(index) == index > 1

\* generateIllustrations from the top of the loop body for position index.
BeginScene(scenes, index, assets, log) ==
  IF index > Len(scenes) THEN Resolved(assets)
  ELSE IF promptThrows(scenes[index]) THEN Rejected(PromptUnreadable)
  ELSE LET entry == SceneLog(Len(assets))
       IN IF NeedsPace(index)
            THEN Awaits(PipelineTask("sceneDelay", scenes, index, 0, assets, JUndef,
                          Append(log, [entry EXCEPT !.paceDelays = 1])), 0)
            ELSE Awaits(PipelineTask("requestImageGeneration", scenes, index, 0, assets,
                          JUndef, Append(log, [entry EXCEPT !.requests = 1])), 1)

\* assets.push({...}) and the next turn of the loop.
PushAsset(task, image, token) ==
  LET scene == task.scenes[task.index]
      asset == [id |-> AssetId("scene-images", task.index),
                title |-> IF JTruthy(Field(scene, "title")) THEN Field(scene, "title")
                          ELSE DefaultTitle(task.index),
                prompt |-> Trim(Field(scene, "prompt").v),
                base64Data |-> image.base64,
                mimeType |-> image.mimeType,
                token |-> token]
  IN BeginScene(task.scenes, task.index + 1, Append(task.assets, asset), task.log)

\* The retry test with one more retry allowed.
shouldRetryOnceMore(message, retryCount) == ~hasImage(message) /\ retryCount < 3

\* The retry test of requestImageGeneration.
shouldRetry(message, retryCount) == ~hasImage(message) /\ retryCount < 2

\* requestImageGeneration from the point where its fetch has settled.
requestImageGeneration(task, reply) ==
  LET response == imageResponse(reply, "imageRequestFailed", "scene-images")
      attempt == task.retryCount + 1
      entry == task.log[task.index]
      firstImage == IF /\ response.ok
                       /\ entry.firstImage = 0
                       /\ UrlTruthy(extractImageUrl(response.value))
                      THEN attempt ELSE entry.firstImage
  IN IF ~response.ok THEN Rejected(response.error)
     ELSE IF shouldRetry(response.value, task.retryCount)
       THEN Awaits([task EXCEPT !.pc = "retryDelay",
                                !.log[task.index].firstImage = firstImage,
                                !.log[task.index].retryDelays = entry.retryDelays + 1], 0)
     ELSE LET extracted == extractImageFromResponse(response.value)
          IN IF ~extracted.ok THEN Rejected(extracted.error)
             ELSE IF extracted.value.url.kind = "data"
               THEN PushAsset([task EXCEPT !.log[task.index].firstImage = firstImage,
                                           !.log[task.index].used = attempt],
                              parseDataUrl(extracted.value.url), extracted.value.token)
             ELSE Awaits([task EXCEPT !.pc = "fetchImageAsBase64",
                                      !.token = extracted.value.token,
                                      !.log[task.index].firstImage = firstImage,
                                      !.log[task.index].used = attempt,
                                      !.log[task.index].downloads = entry.downloads + 1], 1)

\* A bound on the environment: while the user works on the image cards, the
\* requests of the illustration run are answered with two well-formed scenes
\* and with images held in the response; in the illustration panel they get
\* every kind of reply.
TwoSceneReplies ==
  {HttpReply(200, <<>>, TRUE, TextMessage(ModelText("json",
     JObj([scenes |-> JArr(<<TitledScene, UntitledScene>>)]))))}

ImageBearingReplies ==
  {reply \in ImageReplies :
     /\ ResponseOk(reply) /\ reply.data.valid
     /\ hasImage(reply.data.message)
     /\ extractImageUrl(reply.data.message).kind = "data"}

PromptReplies == IF focus = CardsPanel THEN TwoSceneReplies ELSE SceneListReplies

GenerationReplies == IF focus = CardsPanel THEN ImageBearingReplies ELSE ImageReplies

GenerationDownloads == DownloadReplies

\* The handler resumes after a step of generateIllustrations: the run awaits
\* again, or the handler's try, catch and finally clauses run.  (The steps
\* below bind outcome to the one value their expression has.)
\* Resume with the assets made so far stored when the run fails.
ResumeStoringPartial(task, outcome) ==
  /\ tasks' = IF outcome.kind = "await"
                THEN (tasks (-) SetToBag({task})) (+) SetToBag({outcome.task})
                ELSE tasks (-) SetToBag({task})
  /\ requested' = (requested \/ (outcome.kind = "await" /\ outcome.sent > 0))
  /\ sceneImages' = IF outcome.kind = "resolved" THEN outcome.assets
                    ELSE IF outcome.kind = "rejected" /\ "assets" \in DOMAIN task
                      THEN task.assets
                    ELSE sceneImages
  /\ errors' = IF outcome.kind = "rejected"
                 THEN CatchError(errors, "scene-images", outcome.error,
                                 "sceneGenerationFailed")
                 ELSE errors
  /\ loading' = IF outcome.kind = "await" THEN loading
                ELSE setLoadingFor(loading, "scene-images", FALSE)
  /\ UNCHANGED <<envKey, call, focus, inputVars, analysisResult, historyResult,
                 comparativeResult, chatVars, imageVars, showSpacetimeParams, runs, edits>>

Resume(task, outcome) ==
  /\ tasks' = IF outcome.kind = "await"
                THEN (tasks (-) SetToBag({task})) (+) SetToBag({outcome.task})
                ELSE tasks (-) SetToBag({task})
  /\ requested' = (requested \/ (outcome.kind = "await" /\ outcome.sent > 0))
  /\ sceneImages' = IF outcome.kind = "resolved" THEN outcome.assets ELSE sceneImages
  /\ errors' = IF outcome.kind = "rejected"
                 THEN CatchError(errors, "scene-images", outcome.error,
                                 "sceneGenerationFailed")
                 ELSE errors
  /\ loading' = IF outcome.kind = "await" THEN loading
                ELSE setLoadingFor(loading, "scene-images", FALSE)
  /\ UNCHANGED <<envKey, call, focus, inputVars, analysisResult, historyResult,
                 comparativeResult, chatVars, imageVars, showSpacetimeParams, runs, edits>>

handleSceneIllustrations ==
  /\ focus \in {PanelOf("scene-images"), CardsPanel}
  /\ runs < MaxRuns
  /\ IF guardInputs # "ok"
       THEN /\ errors' = setErrorCode(errors, "scene-images", guardInputs)
            /\ UNCHANGED <<loading, netVars>>
       ELSE Await("scene-images", Task("scene-images", "generateImagePrompts"),
                  "sceneGenerationFailed")
  /\ UNCHANGED <<envKey, call, focus, inputVars, resultVars, chatVars, imageVars,
                 showSpacetimeParams>>

\* The illustration button, unless disabled.
clickSceneIllustrations ==
  /\ ~(disableActions \/ loading["scene-images"])
  /\ handleSceneIllustrations

\* The prompt request settles: generateImagePrompts returns or throws, and the
\* loop of generateIllustrations starts.
generateImagePromptsSettledStep(task, reply) ==
  /\ Suspended(task, "scene-images", "generateImagePrompts")
  /\ \E scenes \in {generateImagePrompts(reply)} :
       \E outcome \in {IF scenes.ok THEN BeginScene(scenes.value, 1, <<>>, <<>>)
                        ELSE Rejected(scenes.error)} :
         Resume(task, outcome)

requestImageGenerationSettledStep(task, reply) ==
  /\ Suspended(task, "scene-images", "requestImageGeneration")
  /\ \E outcome \in {requestImageGeneration(task, reply)} : Resume(task, outcome)

\* The 2-second timer ends: requestImageGeneration calls itself.
retryDelayElapsedStep(task) ==
  /\ Suspended(task, "scene-images", "retryDelay")
  /\ \E outcome \in {Awaits([task EXCEPT !.pc = "requestImageGeneration",
                                           !.retryCount = task.retryCount + 1,
                                           !.log[task.index].requests = @ + 1], 1)} :
       Resume(task, outcome)

\* The 3-second timer ends: the first image request of the scene is sent.
sceneDelayElapsedStep(task) ==
  /\ Suspended(task, "scene-images", "sceneDelay")
  /\ \E outcome \in {Awaits([task EXCEPT !.pc = "requestImageGeneration",
                                           !.log[task.index].requests = @ + 1], 1)} :
       Resume(task, outcome)

\* The download of a remote image settles.
fetchImageAsBase64SettledStep(task, reply) ==
  /\ Suspended(task, "scene-images", "fetchImageAsBase64")
  /\ \E image \in {fetchImageAsBase64(reply)} :
       \E outcome \in {IF image.ok THEN PushAsset(task, image.value, task.token)
                        ELSE Rejected(image.error)} :
         Resume(task, outcome)

\* --------------------------------------------------------------- image edit
\* editLoading[id] read as a condition
IsEditLoading(id) == Has(editLoading, id) /\ editLoading[id]

\* prev.map((item) => (item.id === id ? replacement : item))
ReplaceById(images, id, replacement) ==
  [i \in 1..Len(images) |-> IF images[i].id = id THEN replacement ELSE images[i]]

\* A run of handleEditImage suspended at an await.
EditTask(pc, image, editPrompt, token) ==
  [feature |-> "scene-images", pc |-> pc, image |-> image,
   editPrompt |-> editPrompt, token |-> token]

\* `${baseImage.prompt}\n（修改：${editPrompt}）`
EditedPrompt(prompt, editPrompt) == prompt \o <<"\n", "(">> \o editPrompt \o <<")">>

\* The asset editIllustration returns.
editIllustration(baseImage, editPrompt, image, token) ==
  [baseImage EXCEPT
     !.base64Data = image.base64,
     !.mimeType = image.mimeType,
     !.prompt = EditedPrompt(baseImage.prompt, editPrompt),
     !.token = IF token.t \in {"undef", "null"} THEN baseImage.token ELSE token]

EditTexts == {<<" ">>, <<"e">>}

handleEditPromptChange(imageId, value) ==
  /\ focus = CardsPanel
  /\ editValues' = Put(editValues, imageId, value)
  /\ UNCHANGED <<envKey, call, focus, author, workTitle, passage, chatDraft, form, resultVars,
                 loading, errors, chatVars, imageVars, showSpacetimeParams, netVars>>

\* The edit box of a card.
typeEditPrompt ==
  \E i \in 1..Len(sceneImages), value \in EditTexts :
    handleEditPromptChange(sceneImages[i].id, value)

handleEditImage(image) ==
  LET editPrompt == Trim(IF Has(editValues, image.id) THEN editValues[image.id] ELSE <<>>)
  IN /\ focus = CardsPanel
     /\ edits < MaxEdits
     /\ IF ~Truthy(editPrompt)
          THEN /\ errors' = setErrorCode(errors, "scene-images", "missingEditPrompt")
               /\ UNCHANGED <<imageVars, netVars>>
        ELSE IF createHeadersThrows(API_KEY)
          THEN /\ errors' = CatchError(resetErrorsFor(errors, "scene-images"),
                                       "scene-images", MissingKey, "imageEditFailed")
               /\ editLoading' = Put(editLoading, image.id, FALSE)
               /\ previousImages' = Put(previousImages, image.id, image)
               /\ UNCHANGED netVars
        ELSE /\ errors' = resetErrorsFor(errors, "scene-images")
             /\ editLoading' = Put(editLoading, image.id, TRUE)
             /\ previousImages' = Put(previousImages, image.id, image)
             /\ tasks' = tasks (+) SetToBag({EditTask("requestImageEdit", image,
                                                      editPrompt, JUndef)})
             /\ requested' = TRUE
             /\ edits' = edits + 1
             /\ UNCHANGED runs
     /\ UNCHANGED <<envKey, call, focus, inputVars, resultVars, loading, chatVars,
                    showSpacetimeParams>>

\* The edit button of a card, unless disabled.
clickEditImage ==
  \E i \in 1..Len(sceneImages) :
    /\ ~IsEditLoading(sceneImages[i].id)
    /\ handleEditImage(sceneImages[i])

\* The try block of handleEditImage after editIllustration has returned, and
\* its finally clause.
EditResolved(task, image, token) ==
  /\ sceneImages' = ReplaceById(sceneImages, task.image.id,
                      editIllustration(task.image, task.editPrompt, image, token))
  /\ editValues' = Put(editValues, task.image.id, <<>>)
  /\ editLoading' = Put(editLoading, task.image.id, FALSE)
  /\ tasks' = tasks (-) SetToBag({task})
  /\ UNCHANGED <<errors, requested>>

\* The catch and finally clauses of handleEditImage.
EditRejected(task, error) ==
  /\ errors' = CatchError(errors, "scene-images", error, "imageEditFailed")
  /\ editLoading' = Put(editLoading, task.image.id, FALSE)
  /\ tasks' = tasks (-) SetToBag({task})
  /\ UNCHANGED <<sceneImages, editValues, requested>>

\* A bound on the environment: the replies an edit request and the download
\* of an edited image get.
EditReplies ==
  {HttpReply(500, ErrorBody, FALSE, NoMessage)}
  \cup {HttpReply(200, <<>>, TRUE, message) :
          message \in {ImageInImages, ImageInContent, ProseOnly}}

EditDownloads ==
  {DownloadReply(404, ErrorBody, NoBlob),
   DownloadReply(200, <<>>, [base64 |-> "D", type |-> ""])}

\* requestImageEdit from the point where its fetch has settled.
requestImageEditSettledStep(task, reply) ==
  /\ Suspended(task, "scene-images", "requestImageEdit")
  /\ LET response == imageResponse(reply, "imageEditFailed", "scene-images")
        extracted == extractImageFromResponse(response.value)
    IN /\ IF ~response.ok THEN EditRejected(task, response.error)
          ELSE IF ~extracted.ok THEN EditRejected(task, extracted.error)
          ELSE IF extracted.value.url.kind = "data"
            THEN EditResolved(task, parseDataUrl(extracted.value.url),
                              extracted.value.token)
          ELSE /\ tasks' = (tasks (-) SetToBag({task})) (+)
                     SetToBag({[task EXCEPT !.pc = "requestImageEdit.fetchImageAsBase64",
                                            !.token = extracted.value.token]})
               /\ requested' = TRUE
               /\ UNCHANGED <<sceneImages, editValues, editLoading, errors>>
       /\ UNCHANGED <<envKey, call, focus, author, workTitle, passage, chatDraft, form,
                      analysisResult, historyResult, comparativeResult, loading,
                      chatVars, previousImages, showSpacetimeParams, runs, edits>>

\* The download of the edited image settles.
editedImageDownloadSettledStep(task, reply) ==
  /\ Suspended(task, "scene-images", "requestImageEdit.fetchImageAsBase64")
  /\ LET image == fetchImageAsBase64(reply)
    IN /\ IF image.ok THEN EditResolved(task, image.value, task.token)
          ELSE EditRejected(task, image.error)
       /\ UNCHANGED <<envKey, call, focus, author, workTitle, passage, chatDraft, form,
                      analysisResult, historyResult, comparativeResult, loading,
                      chatVars, previousImages, showSpacetimeParams, runs, edits>>

\* handleRevertImage with the snapshot kept after it is put back.
handleRevertImageKeepingSnapshot(imageId) ==
  /\ focus = CardsPanel
  /\ IF ~Has(previousImages, imageId)
       THEN UNCHANGED <<sceneImages, previousImages, editValues>>
       ELSE /\ sceneImages' = ReplaceById(sceneImages, imageId, previousImages[imageId])
            /\ editValues' = Put(editValues, imageId, <<>>)
            /\ UNCHANGED previousImages
  /\ UNCHANGED <<envKey, call, focus, author, workTitle, passage, chatDraft, form,
                 analysisResult, historyResult, comparativeResult, loading, errors,
                 chatVars, editLoading, showSpacetimeParams, netVars>>

handleRevertImage(imageId) ==
  /\ focus = CardsPanel
  /\ IF ~Has(previousImages, imageId)
       THEN UNCHANGED <<sceneImages, previousImages, editValues>>
       ELSE /\ sceneImages' = ReplaceById(sceneImages, imageId, previousImages[imageId])
            /\ previousImages' = Delete(previousImages, imageId)
            /\ editValues' = Put(editValues, imageId, <<>>)
  /\ UNCHANGED <<envKey, call, focus, author, workTitle, passage, chatDraft, form,
                 analysisResult, historyResult, comparativeResult, loading, errors,
                 chatVars, editLoading, showSpacetimeParams, netVars>>

\* The revert button of a card, rendered while the card has a snapshot.
clickRevertImage ==
  \E i \in 1..Len(sceneImages) :
    /\ Has(previousImages, sceneImages[i].id)
    /\ handleRevertImage(sceneImages[i].id)

\* ------------------------------------------------------------------- typing
AuthorTexts == {<<>>, <<"a">>}
WorkTexts == {<<>>, <<"w">>}
PassageTexts == {<<>>, <<" ">>, <<" ", "p">>}

setAuthor == \E v \in AuthorTexts :
  /\ focus \in {"text", "spacetime", "chat"}
  /\ author' = v
  /\ UNCHANGED <<envKey, call, focus, workTitle, passage, chatDraft, form, editValues, resultVars,
                 loading, errors, chatVars, imageVars, showSpacetimeParams, netVars>>

setWorkTitle == \E v \in WorkTexts :
  /\ focus \in {"text", "spacetime"}
  /\ workTitle' = v
  /\ UNCHANGED <<envKey, call, focus, author, passage, chatDraft, form, editValues, resultVars,
                 loading, errors, chatVars, imageVars, showSpacetimeParams, netVars>>

\* A bound on the environment: the user who works on the image cards types
\* the passage once.
setPassage == \E v \in PassageTexts :
  /\ focus = CardsPanel => (passage = <<>> /\ Truthy(Trim(v)))
  /\ passage' = v
  /\ UNCHANGED <<envKey, call, focus, author, workTitle, chatDraft, form, editValues, resultVars,
                 loading, errors, chatVars, imageVars, showSpacetimeParams, netVars>>

DraftTexts == {<<>>, <<" ">>, <<"q", " ">>}

setChatDraft(v) ==
  /\ focus = "chat"
  /\ chatDraft' = v
  /\ UNCHANGED <<envKey, call, focus, author, workTitle, passage, form, editValues, resultVars,
                 loading, errors, chatVars, imageVars, showSpacetimeParams, netVars>>

\* The form fields the user types into, and what is typed.
TypedFormFields == SpacetimeCoreFields
FormTexts == {<<>>, <<"x">>}

setFormField(f, v) ==
  /\ focus = "spacetime"
  /\ form' = [form EXCEPT ![f] = v]
  /\ UNCHANGED <<envKey, call, focus, author, workTitle, passage, chatDraft, editValues, resultVars,
                 loading, errors, chatVars, imageVars, showSpacetimeParams, netVars>>

\* The draft textarea is rendered while the chat is open and is disabled
\* while the chat request is pending.
typeChatDraft ==
  \E v \in DraftTexts :
    /\ isAuthorChatOpen /\ ~loading["author-chat"]
    /\ setChatDraft(v)

\* The parameter form is rendered once showSpacetimeParams is set.
typeFormField ==
  \E f \in TypedFormFields, v \in FormTexts :
    /\ showSpacetimeParams
    /\ setFormField(f, v)

\* What happens without the user: a pending fetch settles, a timer ends.
handleAnalysisSettled ==
  \E task \in BagToSet(tasks), reply \in AnalysisReplies : handleAnalysisSettledStep(task, reply)

handleHistorySettled ==
  \E task \in BagToSet(tasks), reply \in HistoryReplies : handleHistorySettledStep(task, reply)

handleSpacetimeAnalysisSettled ==
  \E task \in BagToSet(tasks), reply \in ComparativeReplies : handleSpacetimeAnalysisSettledStep(task, reply)

handleFillPassageSettled ==
  \E task \in BagToSet(tasks), reply \in PassageReplies : handleFillPassageSettledStep(task, reply)

handleSpacetimeAutofillSettled ==
  \E task \in BagToSet(tasks), reply \in SuggestionReplies : handleSpacetimeAutofillSettledStep(task, reply)

handleSendAuthorChatSettled ==
  \E task \in BagToSet(tasks), reply \in AuthorReplies : handleSendAuthorChatSettledStep(task, reply)

generateImagePromptsSettled ==
  \E task \in BagToSet(tasks), reply \in PromptReplies : generateImagePromptsSettledStep(task, reply)

requestImageGenerationSettled ==
  \E task \in BagToSet(tasks), reply \in GenerationReplies : requestImageGenerationSettledStep(task, reply)

retryDelayElapsed == \E task \in BagToSet(tasks) : retryDelayElapsedStep(task)

sceneDelayElapsed == \E task \in BagToSet(tasks) : sceneDelayElapsedStep(task)

fetchImageAsBase64Settled ==
  \E task \in BagToSet(tasks), reply \in GenerationDownloads : fetchImageAsBase64SettledStep(task, reply)

requestImageEditSettled ==
  \E task \in BagToSet(tasks), reply \in EditReplies : requestImageEditSettledStep(task, reply)

editedImageDownloadSettled ==
  \E task \in BagToSet(tasks), reply \in EditDownloads : editedImageDownloadSettledStep(task, reply)

Settles ==
  \/ handleAnalysisSettled \/ handleHistorySettled \/ handleSpacetimeAnalysisSettled
  \/ handleFillPassageSettled \/ handleSpacetimeAutofillSettled \/ handleSendAuthorChatSettled
  \/ generateImagePromptsSettled \/ requestImageGenerationSettled \/ retryDelayElapsed
  \/ sceneDelayElapsed \/ fetchImageAsBase64Settled \/ requestImageEditSettled
  \/ editedImageDownloadSettled

\* The page as the user operates it.
Next ==
  \/ setAuthor \/ setWorkTitle \/ setPassage \/ typeFormField \/ typeChatDraft
  \/ typeEditPrompt
  \/ clickAnalysis \/ clickHistory \/ clickSpacetimeAnalysis \/ clickFillPassage
  \/ clickSpacetimeAutofill \/ clickOpenAuthorChat \/ clickSendAuthorChat
  \/ clickSceneIllustrations \/ clickEditImage \/ clickRevertImage
  \/ Settles

Spec == Init /\ [][Next]_vars

\* ------------------------------------------------------- handlers called directly
\* The handlers and state setters invoked with any inputs, the way a caller
\* that holds them would: the disabled and rendered conditions of the buttons
\* and fields are not part of them.  A bound on the caller: it calls a handler
\* once the run of the previous one has ended.
Idle == tasks = EmptyBag

SampleImage ==
  [id |-> AssetId("scene-images", 1), title |-> JStr(<<"s">>), prompt |-> <<"d">>,
   base64Data |-> "A", mimeType |-> "image/png", token |-> JUndef]

CallImages == {sceneImages[i] : i \in 1..Len(sceneImages)} \cup {SampleImage}

callSetFormField == \E f \in TypedFormFields, v \in FormTexts : setFormField(f, v)

callSetChatDraft == \E v \in DraftTexts : setChatDraft(v)

callEditPromptChange ==
  \E image \in CallImages, value \in EditTexts : handleEditPromptChange(image.id, value)

callEditImage == \E image \in CallImages : Idle /\ handleEditImage(image)

callRevertImage == \E image \in CallImages : Idle /\ handleRevertImage(image.id)

callAnalysis == Idle /\ handleAnalysis
callHistory == Idle /\ handleHistory
callSpacetimeAnalysis == Idle /\ handleSpacetimeAnalysis
callFillPassage == Idle /\ handleFillPassage
callSpacetimeAutofill == Idle /\ handleSpacetimeAutofill
callOpenAuthorChat == Idle /\ handleOpenAuthorChat
callSendAuthorChat == Idle /\ handleSendAuthorChat
callSceneIllustrations == Idle /\ handleSceneIllustrations

NextHandlers ==
  \/ setAuthor \/ setWorkTitle \/ setPassage \/ callSetFormField \/ callSetChatDraft
  \/ callEditPromptChange
  \/ callAnalysis \/ callHistory \/ callSpacetimeAnalysis \/ callFillPassage
  \/ callSpacetimeAutofill \/ callOpenAuthorChat \/ callSendAuthorChat
  \/ callSceneIllustrations \/ callEditImage \/ callRevertImage
  \/ Settles

SpecHandlers == Init /\ [][NextHandlers]_vars

\* ------------------------------------------------------------------ progress
\* Every pending fetch settles and every timer ends: while a run is suspended
\* at an await, a step that resumes one is taken sooner or later.  This is
\* weak fairness of Settles, written with the condition under which Settles
\* is enabled (SettlesEnabledWhenPending) in the place of ENABLED.
SettlesEnabledWhenPending == (ENABLED <<Settles>>_vars) <=> tasks # EmptyBag

Progress == []<>(tasks = EmptyBag) \/ []<><<Settles>>_vars

SpecLive == Init /\ [][Next]_vars /\ Progress

\* ------------------------------------------------- the illustration pipeline
\* The illustration run on its own, with a passage typed and a key configured,
\* answered with scene lists up to MaxScenesAnswered long and with image
\* replies that hold an image, hold none, or are refused.
NumberedScene(i) == Scene(JStr(<<"s", ToString(i)>>), JStr(<<"d", ToString(i)>>))

NumberedScenes(n) == [i \in 1..n |-> NumberedScene(i)]

AnsweredCounts == {0, 1, MaxScenesKept, MaxScenesAnswered}

LongSceneReplies ==
  {HttpReply(500, ErrorBody, FALSE, NoMessage),
   HttpReply(200, <<>>, TRUE, TextMessage(ModelText("json", JObj([scenes |-> JStr(<<"x">>)]))))}
  \cup {HttpReply(200, <<>>, TRUE,
                   TextMessage(ModelText("json", JObj([scenes |-> JArr(NumberedScenes(n))])))) :
          n \in AnsweredCounts}

PipelineImageReplies ==
  {HttpReply(500, ErrorBody, FALSE, NoMessage),
   HttpReply(200, <<>>, TRUE, ImageInImages),
   HttpReply(200, <<>>, TRUE, ProseOnly)}

IllustrationInit ==
  InitWith(<<" ", "p">>) /\ Truthy(API_KEY) /\ focus = PanelOf("scene-images")

longSceneListSettled ==
  \E task \in BagToSet(tasks), reply \in LongSceneReplies :
    generateImagePromptsSettledStep(task, reply)

pipelineImageSettled ==
  \E task \in BagToSet(tasks), reply \in PipelineImageReplies :
    requestImageGenerationSettledStep(task, reply)

PipelineSettles ==
  \/ longSceneListSettled \/ pipelineImageSettled \/ retryDelayElapsed \/ sceneDelayElapsed

NextIllustrations == clickSceneIllustrations \/ PipelineSettles

SpecIllustrations == IllustrationInit /\ [][NextIllustrations]_vars

\* Every request of the run is answered and every timer of the run ends: weak
\* fairness of the settle steps, which are enabled exactly while a run waits.
PipelineSettlesEnabledWhenPending ==
  (ENABLED <<PipelineSettles>>_vars) <=> tasks # EmptyBag

PipelineProgress == []<>(tasks = EmptyBag) \/ []<><<PipelineSettles>>_vars

SpecIllustrationsLive == SpecIllustrations /\ PipelineProgress

\* ------------------------------------------------------------- scene count
\* computeImageCount applied to inputs of every size up to the bounds, and to
\* short texts through splitSentences and countCharacters.
CountedTypes == {"scene-images", "image-prompts"}

CountedTexts ==
  {<<>>, <<" ">>, <<"a", " ", "b">>, <<"a", "fw.", "b">>, <<"a", ",", ";", "b", "\n">>,
   <<" ", "fwe", "a", "fw,", " ", "fw;">>}

ImageCountCall(sentences, characters, type) ==
  [fn |-> "computeImageCount", sentences |-> sentences, characters |-> characters,
   type |-> type, result |-> computeImageCount(sentences, characters, type)]

UtilInit == Init /\ envKey = <<>> /\ focus = "text"

computeImageCountOfSizes ==
  /\ call = NoCall
  /\ \E sentences \in 0..MaxSentences, characters \in 0..MaxCharacters,
        type \in CountedTypes :
       call' = ImageCountCall(sentences, characters, type)
  /\ UNCHANGED appVars

computeImageCountOfText ==
  /\ call = NoCall
  /\ \E content \in CountedTexts, type \in CountedTypes :
       call' = ImageCountCall(Len(splitSentences(content)), countCharacters(content), type)
  /\ UNCHANGED appVars

NextImageCount == computeImageCountOfSizes \/ computeImageCountOfText

SpecImageCount == UtilInit /\ [][NextImageCount]_vars

\* ------------------------------------------------------------ reply parsing
\* tryParseJson on reply texts given character by character.  The characters
\* are those of a small JSON: "1" is a number, "k" a key with its colon, an
\* object is {} or {k value}; "p" is a character of prose.
ReplyChars == {"{", "}", "k", "1", "p", " "}

ReplyTexts == UNION {[1..n -> ReplyChars] : n \in 0..MaxReplyLen}

RECURSIVE SkipSpace(_, _)
SkipSpace(s, i) == IF i <= Len(s) /\ s[i] = " " THEN SkipSpace(s, i + 1) ELSE i

NoValue == [ok |-> FALSE]

RECURSIVE ValueAt(_, _)
\* The JSON value that starts at or after position at, and where it ends.
ValueAt(s, at) ==
  LET i == SkipSpace(s, at)
  IN IF i > Len(s) THEN NoValue
     ELSE IF s[i] = "1" THEN [ok |-> TRUE, value |-> JNum(<<"1">>), next |-> i + 1]
     ELSE IF s[i] # "{" THEN NoValue
     ELSE LET j == SkipSpace(s, i + 1)
          IN IF j > Len(s) THEN NoValue
             ELSE IF s[j] = "}" THEN [ok |-> TRUE, value |-> JObj(<<>>), next |-> j + 1]
             ELSE IF s[j] # "k" THEN NoValue
             ELSE LET member == ValueAt(s, j + 1)
                      close == IF member.ok THEN SkipSpace(s, member.next) ELSE 0
                  IN IF member.ok /\ close <= Len(s) /\ s[close] = "}"
                       THEN [ok |-> TRUE, value |-> JObj([k |-> member.value]),
                             next |-> close + 1]
                       ELSE NoValue

SyntaxError == Thrown("SyntaxError", PlainMsg("unexpectedToken"), NoRaw)

\* JSON.parse: the text is one value, white space around it allowed.
JSONparse(s) ==
  LET parsed == ValueAt(s, 1)
  IN IF parsed.ok /\ SkipSpace(s, parsed.next) > Len(s) THEN Ok(parsed.value)
     ELSE Err(SyntaxError)

Positions(s, c) == {i \in 1..Len(s) : s[i] = c}

SetMin(S) == CHOOSE x \in S : \A y \in S : x <= y
SetMax(S) == CHOOSE x \in S : \A y \in S : x >= y

\* trimmed.match(/\{[\s\S]*\}/): from the first "{" to the last "}" after it.
MatchBraces(trimmed) ==
  LET opens == Positions(trimmed, "{")
      closes == IF opens = {} THEN {}
                ELSE {j \in Positions(trimmed, "}") : j > SetMin(opens)}
  IN IF closes = {} THEN [found |-> FALSE]
     ELSE [found |-> TRUE, text |-> SubSeq(trimmed, SetMin(opens), SetMax(closes))]

\* tryParseJson on the characters of raw.
tryParseJsonOfChars(raw) ==
  LET trimmed == Trim(raw)
      jsonMatch == MatchBraces(trimmed)
      candidate == IF jsonMatch.found THEN jsonMatch.text ELSE trimmed
  IN JSONparse(candidate)

tryParseJsonApplied ==
  /\ call = NoCall
  /\ \E raw \in ReplyTexts :
       call' = [fn |-> "tryParseJson", raw |-> raw, result |-> tryParseJsonOfChars(raw)]
  /\ UNCHANGED appVars

NextParse == tryParseJsonApplied

SpecParse == UtilInit /\ [][NextParse]_vars

\* ------------------------------------------------------ list normalization
\* The normalizers applied to a payload whose list field is one string.
JoinedChars == {"a", " ", ";", "fw;", "\n", "\r"}

JoinedTexts == UNION {[1..n -> JoinedChars] : n \in 0..MaxJoinedLen}

ListFieldCall(fn, field, text, result) ==
  [fn |-> fn, field |-> field, text |-> text, result |-> result]

normalizeAnalysisResultApplied ==
  /\ call = NoCall
  /\ \E text \in JoinedTexts :
       LET payload == JObj([sentences |->
                         JArr(<<Sentence(JStr(<<"o">>), JStr(<<"s">>), JStr(text))>>)])
       IN call' = ListFieldCall("normalizeAnalysisResult", "explanation", text,
                    normalizeAnalysisResult(payload).sentences[1].explanation)
  /\ UNCHANGED appVars

normalizeHistoricalContextApplied ==
  /\ call = NoCall
  /\ \E text \in JoinedTexts :
       LET payload == JObj([overview |-> JStr(<<"o">>), recentEvents |-> JStr(text)])
       IN call' = ListFieldCall("normalizeHistoricalContext", "recentEvents", text,
                    normalizeHistoricalContext(payload).recentEvents)
  /\ UNCHANGED appVars

normalizeComparativeAnalysisApplied ==
  /\ call = NoCall
  /\ \E text \in JoinedTexts :
       LET figure == JObj([name |-> JStr(<<"n">>), hallmarkWorks |-> JStr(text),
                           rationale |-> JStr(<<"r">>)])
           region == JObj([region |-> JStr(<<"g">>), figures |-> JArr(<<figure>>)])
           payload == JObj([executiveSnapshot |-> JStr(<<"x">>),
                            comparatorShortlist |-> JArr(<<region>>)])
       IN call' = ListFieldCall("normalizeComparativeAnalysis", "hallmarkWorks", text,
                    normalizeComparativeAnalysis(payload)
                      .comparatorShortlist[1].figures[1].hallmarkWorks)
  /\ UNCHANGED appVars

NextNormalize ==
  \/ normalizeAnalysisResultApplied
  \/ normalizeHistoricalContextApplied
  \/ normalizeComparativeAnalysisApplied

SpecNormalize == UtilInit /\ [][NextNormalize]_vars

\* --------------------------------------------------------------- properties
\* The vocabulary of the properties, stated on the state itself.
Blank(s) == \A i \in 1..Len(s) : s[i] \in {" ", "\t", "\n", "\r"}

KeyEmpty == Blank(envKey)

\* What each feature stores when a run of it succeeds.
StoredResult(k) ==
  CASE k = "analysis" -> analysisResult
    [] k = "history" -> historyResult
    [] k = "scene-images" -> sceneImages
    [] k = "spacetime" -> comparativeResult
    [] k = "passage-fill" -> passage
    [] k = "spacetime-fill" -> form
    [] k = "author-chat" -> authorChatMessages

ValidationErrors ==
  {[type |-> "code", code |-> c] :
     c \in {"missingApiKey", "missingPassage", "missingAuthorWork", "missingSpacetimeInput",
            "missingSpacetimeCore", "missingChatAuthor"}}

\* A handler of feature k has refused to start: an error under k, loading[k]
\* false, nothing sent, the stored result of k as it was.
Refused(k) ==
  /\ errors'[k] \in ValidationErrors
  /\ ~loading'[k]
  /\ tasks' = tasks /\ requested' = requested
  /\ StoredResult(k)' = StoredResult(k)

KeyOrPassageMissing == KeyEmpty \/ Blank(passage)

C2_NoKeyNoRequest == KeyEmpty => (~requested /\ tasks = EmptyBag)

\* With an empty key the edit handler was called with an instruction: the
\* missing-key error of createHeaders is recorded, and nothing was sent.
C2_Witness ==
  /\ KeyEmpty
  /\ Has(previousImages, SampleImage.id)
  /\ errors["scene-images"] = [type |-> "custom", message |-> MissingKey.message]
  /\ ~requested

NonEmptyError(e) == e.type = "code" \/ (e.type = "custom" /\ e.message.what # "")

\* The end of a run of feature k whose feature function settled to result.
Concludes(k, result) ==
  IF result.ok THEN StoredResult(k)' = result.value
  ELSE StoredResult(k)' = StoredResult(k) /\ NonEmptyError(errors'[k])

\* A step of the illustration run that gets to outcome.
PipelineConcludes(outcome) ==
  CASE outcome.kind = "resolved" -> sceneImages' = outcome.assets
    [] outcome.kind = "rejected" ->
         sceneImages' = sceneImages /\ NonEmptyError(errors'["scene-images"])
    [] OTHER -> sceneImages' = sceneImages

Resumes(task) ==
  \/ \E reply \in AnalysisReplies : handleAnalysisSettledStep(task, reply)
  \/ \E reply \in HistoryReplies : handleHistorySettledStep(task, reply)
  \/ \E reply \in ComparativeReplies : handleSpacetimeAnalysisSettledStep(task, reply)
  \/ \E reply \in PassageReplies : handleFillPassageSettledStep(task, reply)
  \/ \E reply \in SuggestionReplies : handleSpacetimeAutofillSettledStep(task, reply)
  \/ \E reply \in AuthorReplies : handleSendAuthorChatSettledStep(task, reply)
  \/ \E reply \in PromptReplies : generateImagePromptsSettledStep(task, reply)
  \/ \E reply \in GenerationReplies : requestImageGenerationSettledStep(task, reply)
  \/ retryDelayElapsedStep(task)
  \/ sceneDelayElapsedStep(task)
  \/ \E reply \in GenerationDownloads : fetchImageAsBase64SettledStep(task, reply)
  \/ \E reply \in EditReplies : requestImageEditSettledStep(task, reply)
  \/ \E reply \in EditDownloads : editedImageDownloadSettledStep(task, reply)

\* The steps of the handlers that operate for feature key k: the handler
\* itself, and every later step of a run it started.
Trigger(k) ==
  CASE k = "analysis" -> handleAnalysis
    [] k = "history" -> handleHistory
    [] k = "spacetime" -> handleSpacetimeAnalysis
    [] k = "passage-fill" -> handleFillPassage
    [] k = "spacetime-fill" -> handleSpacetimeAutofill
    [] k = "author-chat" -> handleOpenAuthorChat \/ handleSendAuthorChat
    [] k = "scene-images" ->
         \/ handleSceneIllustrations
         \/ \E i \in 1..Len(sceneImages) :
              handleEditImage(sceneImages[i]) \/ handleRevertImage(sceneImages[i].id)

OperatesFor(k) ==
  Trigger(k) \/ \E task \in BagToSet(tasks) : task.feature = k /\ Resumes(task)

\* C4: a step of a handler that operates for feature key k (whether the run
\* succeeds, fails a check, or fails at the transport, parse, empty-result or
\* resource level) leaves loading[j], errors[j] and the stored result of j
\* unchanged for every other feature key j.
C4_OtherKeysUntouched ==
  [][\A k \in Features :
       OperatesFor(k) =>
         \A j \in Features \ {k} :
           /\ loading'[j] = loading[j]
           /\ errors'[j] = errors[j]
           /\ StoredResult(j)' = StoredResult(j)]_vars

\* A history run failed and recorded its error while the analysis stored
\* earlier, and no error of the analysis, stayed in place.
C4_Witness ==
  /\ analysisResult # Null /\ errors["analysis"] = NoError
  /\ historyResult = Null /\ NonEmptyError(errors["history"])
  /\ tasks = EmptyBag

IsEditTask(task) == "editPrompt" \in DOMAIN task

\* The ids of the cards: the scene lists of ScenePayloads hold at most two scenes.
CardIds == {AssetId("scene-images", i) : i \in 1..2}

\* The run of feature k that ends with this step has delivered its result.
Delivered(k) ==
  CASE k = "analysis" ->
         \E reply \in AnalysisReplies :
           generateAnalysis(reply).ok /\ analysisResult' = generateAnalysis(reply).value
    [] k = "history" ->
         \E reply \in HistoryReplies :
           /\ generateHistoricalContext(reply).ok
           /\ historyResult' = generateHistoricalContext(reply).value
    [] k = "spacetime" ->
         \E reply \in ComparativeReplies :
           /\ generateComparativeAnalysis(reply).ok
           /\ comparativeResult' = generateComparativeAnalysis(reply).value
    [] k = "passage-fill" ->
         \E reply \in PassageReplies :
           fetchPassageText(reply).ok /\ passage' = fetchPassageText(reply).value
    [] k = "spacetime-fill" ->
         \E reply \in SuggestionReplies :
           /\ generateSpacetimeSuggestions(reply).ok
           /\ \A f \in FormFields :
                form'[f] \in {form[f], generateSpacetimeSuggestions(reply).value[f]}
           /\ \E f \in FormFields : form'[f] = generateSpacetimeSuggestions(reply).value[f]
    [] k = "author-chat" ->
         /\ Len(authorChatMessages') = Len(authorChatMessages) + 1
         /\ authorChatMessages'[Len(authorChatMessages')].role = "author"
    [] k = "scene-images" ->
         /\ Len(sceneImages') > 0
         /\ \A i \in 1..Len(sceneImages') : sceneImages'[i].id = AssetId("scene-images", i)

\* The edit of the image id that ends with this step has replaced the image.
Edited(id) ==
  \E i \in 1..Len(sceneImages) :
    /\ sceneImages[i].id = id /\ sceneImages'[i].id = id
    /\ Len(sceneImages'[i].prompt) > Len(sceneImages[i].prompt)

\* C5: provided every pending fetch settles, loading[feature] once true becomes
\* false again, and so does editLoading[id] (no flag stays true from some point
\* on: at every point of a run each flag is false then or later); at the step
\* where the flag falls, either the result of the feature was updated or an
\* error message is held under its key.
C5_LoadingEnds ==
  /\ \A k \in Features : []<>(~loading[k])
  /\ \A id \in CardIds : []<>(~IsEditLoading(id))
  /\ [][/\ \A k \in Features :
             (loading[k] /\ ~loading'[k]) => (NonEmptyError(errors'[k]) \/ Delivered(k))
        /\ \A id \in CardIds :
             (IsEditLoading(id) /\ ~IsEditLoading(id)')
               => (NonEmptyError(errors'["scene-images"]) \/ Edited(id))]_vars

\* An edit has ended in failure: its flag is down and its error is held.
C5_Witness ==
  /\ \E id \in CardIds : Has(editLoading, id) /\ ~editLoading[id]
  /\ NonEmptyError(errors["scene-images"])
  /\ errors["scene-images"].type = "custom"
  /\ tasks = EmptyBag

EditFlag(id) == id \in DOMAIN editLoading /\ editLoading[id]

\* Two suspended runs started by the same trigger: the button of one feature,
\* or the edit button of one image.
SameTrigger(t1, t2) ==
  /\ IsEditTask(t1) = IsEditTask(t2)
  /\ IF IsEditTask(t1) THEN t1.image.id = t2.image.id ELSE t1.feature = t2.feature

\* The edit button of the card at position i.
EditButton(i) == ~IsEditLoading(sceneImages[i].id) /\ handleEditImage(sceneImages[i])

\* C6: in every reachable state at most one asynchronous run is in flight per
\* trigger (the button of a feature, the edit button of an image): the flag of
\* a pending run is set, and the trigger is not enabled while its flag, loading
\* [feature] or editLoading[id], is set.  (The edit of an image has its own
\* flag: it may be in flight together with the illustration run and with the
\* edit of another image.)
C6_OneRunPerTrigger ==
  /\ \A task \in BagToSet(tasks) :
       /\ CopiesIn(task, tasks) = 1
       /\ IF IsEditTask(task) THEN EditFlag(task.image.id) ELSE loading[task.feature]
  /\ \A t1, t2 \in BagToSet(tasks) : SameTrigger(t1, t2) => t1 = t2
  /\ loading["analysis"] => ~ENABLED clickAnalysis
  /\ loading["history"] => ~ENABLED clickHistory
  /\ loading["scene-images"] => ~ENABLED clickSceneIllustrations
  /\ loading["spacetime"] => ~ENABLED clickSpacetimeAnalysis
  /\ loading["passage-fill"] => ~ENABLED clickFillPassage
  /\ loading["spacetime-fill"] => ~ENABLED clickSpacetimeAutofill
  /\ loading["author-chat"] => ~ENABLED (clickSendAuthorChat \/ clickOpenAuthorChat)
  /\ \A i \in 1..Len(sceneImages) :
       EditFlag(sceneImages[i].id) => ~ENABLED EditButton(i)

\* The edit of an image and a second illustration run are in flight together,
\* each under its own flag.
C6_Witness ==
  /\ loading["scene-images"]
  /\ \E t1, t2 \in BagToSet(tasks) :
       /\ IsEditTask(t1) /\ EditFlag(t1.image.id)
       /\ ~IsEditTask(t2) /\ t2.feature = "scene-images"

\* The illustration runs that have entered the loop of generateIllustrations.
PipelineRuns ==
  {task \in BagToSet(tasks) :
     /\ ~IsEditTask(task) /\ task.feature = "scene-images"
     /\ task.pc # "generateImagePrompts"}

\* A response that carries an image: one of the places the extraction reads
\* holds an image URL.
CarriesImage(message) == UrlTruthy(extractImageUrl(message))

\* C7: image generation for one scene sends at most 3 requests; each of the
\* first two responses that carry no image is followed by one 2-second delay
\* and a new request, and a third such response ends the scene with an error;
\* if attempt j is the first whose response carries an image, exactly j
\* requests and j-1 delays have occurred and the image returned is the one of
\* attempt j.
C7_ThreeAttempts ==
  /\ [](\A task \in PipelineRuns : \A i \in 1..Len(task.log) :
          LET scene == task.log[i]
          IN /\ scene.requests <= 3 /\ scene.retryDelays <= 2
             /\ scene.firstImage # 0 =>
                  /\ scene.requests = scene.firstImage
                  /\ scene.retryDelays = scene.firstImage - 1
             /\ scene.used # 0 => scene.used = scene.firstImage)
  /\ [][\A task \in PipelineRuns :
          \A reply \in {r \in GenerationReplies :
                          ResponseOk(r) /\ r.data.valid /\ r.data.message.present} :
            requestImageGenerationSettledStep(task, reply) =>
              LET retried == \E next \in BagToSet(tasks') : next.pc = "retryDelay"
              IN IF CarriesImage(reply.data.message) THEN ~retried
                 ELSE IF task.retryCount < 2 THEN retried
                 ELSE /\ PipelineRuns' = {}
                      /\ NonEmptyError(errors'["scene-images"])]_vars

\* C8: the illustration run is serial and paced: the scenes are worked on in
\* order, scene i+1 is begun only once scene i has produced its asset, at most
\* one request of the run is in flight, and a 3-second delay is taken exactly
\* once before each scene but the first (N-1 delays for N scenes) and never
\* before a retry; the run stores its assets once the last scene is done.
C8_SerialAndPaced ==
  /\ [](/\ Cardinality(PipelineRuns) <= 1
        /\ \A task \in PipelineRuns :
             /\ task.index \in 1..Len(task.scenes)
             /\ Len(task.log) = task.index
             /\ Len(task.assets) = task.index - 1
             /\ \A i \in 1..Len(task.assets) :
                  /\ task.assets[i].id = AssetId("scene-images", i)
                  /\ task.log[i].used # 0
             /\ \A i \in 1..Len(task.log) :
                  /\ task.log[i].assetsBefore = i - 1
                  /\ task.log[i].paceDelays = (IF i = 1 THEN 0 ELSE 1)
             /\ task.log[task.index].requests = 0 <=> task.pc = "sceneDelay")
  /\ [][\A task \in PipelineRuns :
          (Resumes(task) /\ sceneImages' # sceneImages) =>
            /\ task.index = Len(task.scenes)
            /\ Len(sceneImages') = Len(task.scenes)
            /\ \A i \in 1..Len(task.assets) : sceneImages'[i] = task.assets[i]]_vars

\* The second scene is being retried: one 3-second delay was taken before it,
\* none before the retries of either scene.
C8_Witness ==
  \E task \in PipelineRuns :
    /\ task.index = 2 /\ task.pc = "requestImageGeneration"
    /\ task.log[1].retryDelays > 0 /\ task.log[1].paceDelays = 0
    /\ task.log[2].retryDelays > 0 /\ task.log[2].paceDelays = 1

\* The replies with a status outside 200..299.
NonOk(replies) == {reply \in replies : reply.net = "resp" /\ ~ResponseOk(reply)}

\* The run of task ends on reply with an error that holds the status code of
\* the reply and body: the task is gone, nothing is sent or scheduled in its
\* place, and its flag is down.
EndsWithStatus(task, reply, body) ==
  /\ tasks' = tasks (-) SetToBag({task})
  /\ requested' = requested
  /\ errors'[task.feature].type = "custom"
  /\ errors'[task.feature].message.status = reply.status
  /\ errors'[task.feature].message.body = body
  /\ IF IsEditTask(task) THEN ~EditFlag(task.image.id)' ELSE ~loading'[task.feature]

\* A chat-completions request of task (a chat feature, image generation,
\* image edit) is answered by reply.
ChatCompletionsAnswer(task, reply) ==
  \/ reply \in AnalysisReplies /\ handleAnalysisSettledStep(task, reply)
  \/ reply \in HistoryReplies /\ handleHistorySettledStep(task, reply)
  \/ reply \in ComparativeReplies /\ handleSpacetimeAnalysisSettledStep(task, reply)
  \/ reply \in PassageReplies /\ handleFillPassageSettledStep(task, reply)
  \/ reply \in SuggestionReplies /\ handleSpacetimeAutofillSettledStep(task, reply)
  \/ reply \in AuthorReplies /\ handleSendAuthorChatSettledStep(task, reply)
  \/ reply \in PromptReplies /\ generateImagePromptsSettledStep(task, reply)
  \/ reply \in GenerationReplies /\ requestImageGenerationSettledStep(task, reply)
  \/ reply \in EditReplies /\ requestImageEditSettledStep(task, reply)

\* The download of a remote image for task is answered by reply.
DownloadAnswer(task, reply) ==
  \/ reply \in GenerationDownloads /\ fetchImageAsBase64SettledStep(task, reply)
  \/ reply \in EditDownloads /\ editedImageDownloadSettledStep(task, reply)

HttpRefusals ==
  NonOk(AnalysisReplies \cup HistoryReplies \cup ComparativeReplies \cup PassageReplies
        \cup SuggestionReplies \cup AuthorReplies \cup SceneListReplies \cup ImageReplies
        \cup EditReplies)

DownloadRefusals == NonOk(DownloadReplies \cup EditDownloads)

\* C9 as stated: a non-2xx response to any request the program sends ends the
\* run with an error that holds the status code and the response body, with no
\* further request and no retry.
C9_AnyRequestStatusAndBody ==
  [][\A task \in BagToSet(tasks) :
       /\ \A reply \in HttpRefusals :
            ChatCompletionsAnswer(task, reply) => EndsWithStatus(task, reply, reply.text)
       /\ \A reply \in DownloadRefusals :
            DownloadAnswer(task, reply) => EndsWithStatus(task, reply, reply.text)]_vars

\* C9: a non-2xx response to a chat-completions request (chat features, image
\* generation at any attempt, image edit) ends the run at once with an error
\* that holds the status code and the response body: no further request, no
\* retry.  A non-2xx response to the download of a remote image ends the run
\* likewise, with an error that holds the status code and no body.
C9_StatusAndBodyForChatCompletions ==
  [][\A task \in BagToSet(tasks) :
       /\ \A reply \in HttpRefusals :
            ChatCompletionsAnswer(task, reply) =>
              /\ EndsWithStatus(task, reply, reply.text)
              /\ reply.text # <<>>
       /\ \A reply \in DownloadRefusals :
            DownloadAnswer(task, reply) => EndsWithStatus(task, reply, <<>>)]_vars

\* The image endpoint answered a request of the illustration run with status
\* 500: the error holds status and body, and nothing of the run is left.
C9_Witness ==
  /\ errors["scene-images"].type = "custom"
  /\ errors["scene-images"].message.what = "imageRequestFailed"
  /\ errors["scene-images"].message.status = 500
  /\ errors["scene-images"].message.body = ErrorBody
  /\ tasks = EmptyBag /\ ~loading["scene-images"]
  /\ sceneImages = <<>>

\* The normalized result of a well-formed reply is wholly empty.
WhollyEmpty(k, reply) ==
  CASE k = "analysis" ->
         LET raw == requestChatCompletion(reply, "analysis", FallbackAnalysis)
         IN /\ raw.ok /\ ~normalizeAnalysisThrows(raw.value)
            /\ normalizeAnalysisResult(raw.value) = EMPTY_ANALYSIS
    [] k = "history" ->
         LET raw == requestChatCompletion(reply, "history", FallbackHistory)
         IN raw.ok /\ normalizeHistoricalContext(raw.value) = EMPTY_HISTORY
    [] k = "spacetime" ->
         LET raw == requestChatCompletion(reply, "comparative-analysis", FallbackComparative)
         IN /\ raw.ok /\ ~normalizeComparativeThrows(raw.value)
            /\ normalizeComparativeAnalysis(raw.value) = EMPTY_COMPARATIVE
    [] k = "spacetime-fill" ->
         LET raw == requestChatCompletion(reply, "spacetime-hints", FallbackSpacetime)
         IN raw.ok /\ normalizeSpacetimeSuggestion(raw.value) = EMPTY_SPACETIME

EmptyAnalyses == {reply \in AnalysisReplies : WhollyEmpty("analysis", reply)}
EmptyHistories == {reply \in HistoryReplies : WhollyEmpty("history", reply)}
EmptyComparatives == {reply \in ComparativeReplies : WhollyEmpty("spacetime", reply)}
EmptySuggestions == {reply \in SuggestionReplies : WhollyEmpty("spacetime-fill", reply)}

\* The run of feature k ends without a new result: the stored result is as it
\* was, and an error is recorded under k.
KeepsResult(k) ==
  /\ StoredResult(k)' = StoredResult(k)
  /\ NonEmptyError(errors'[k])
  /\ ~loading'[k]

\* C10: a reply whose normalized result is wholly empty (analysis: no
\* sentence; history: empty overview and no event; comparative: all four parts
\* empty; suggestions: every field empty) is never stored as a success: an
\* error is recorded under the key of the feature and the result stored
\* before stays.
C10_EmptyResultIsAnError ==
  [][\A task \in BagToSet(tasks) :
       /\ \A reply \in EmptyAnalyses :
            handleAnalysisSettledStep(task, reply) => KeepsResult("analysis")
       /\ \A reply \in EmptyHistories :
            handleHistorySettledStep(task, reply) => KeepsResult("history")
       /\ \A reply \in EmptyComparatives :
            handleSpacetimeAnalysisSettledStep(task, reply) => KeepsResult("spacetime")
       /\ \A reply \in EmptySuggestions :
            handleSpacetimeAutofillSettledStep(task, reply)
              => KeepsResult("spacetime-fill")]_vars

\* A second history run got an empty result: the error is recorded and the
\* result of the first run is still stored.
C10_Witness ==
  /\ errors["history"].type = "custom"
  /\ errors["history"].message.what = "noHistoryReturned"
  /\ historyResult # Null
  /\ ~loading["history"] /\ runs = 2

\* The entries of images other than id are the same in both lists, and the
\* lists are equally long.
OthersSame(before, after, id) ==
  /\ Len(after) = Len(before)
  /\ \A i \in 1..Len(before) : before[i].id # id => after[i] = before[i]

\* An edit of task.image has succeeded in this step.
EditSucceeds(task) ==
  /\ IsEditTask(task)
  /\ Resumes(task)
  /\ ~(\E next \in BagToSet(tasks') : IsEditTask(next) /\ next.image.id = task.image.id)
  /\ errors' = errors

\* handleRevertImage(id) puts asset back where the entry of id is, clears the
\* draft of id and leaves the other entries alone.
RevertRestores(id, asset) ==
  /\ OthersSame(sceneImages, sceneImages', id)
  /\ \A i \in 1..Len(sceneImages) : sceneImages[i].id = id => sceneImages'[i] = asset
  /\ editValues'[id] = <<>>

\* C11: a successful edit of an image immediately followed by revert restores
\* the entry of that id to exactly the asset the edit was invoked on, at the
\* same position, empties editValues[id] and leaves every other image as it
\* is: once the edit has succeeded the snapshot of the pre-edit asset is held
\* for the revert, and the revert puts the snapshot back.
C11_EditThenRevertRestores ==
  [][/\ \A task \in BagToSet(tasks) :
          EditSucceeds(task) =>
            /\ Has(previousImages', task.image.id)
            /\ previousImages'[task.image.id] = task.image
     /\ \A i \in 1..Len(sceneImages) :
          (Has(previousImages, sceneImages[i].id) /\ handleRevertImage(sceneImages[i].id))
            => RevertRestores(sceneImages[i].id, previousImages[sceneImages[i].id])]_vars

\* The image and the token an edit run gets from reply, the answer to its
\* last request (NoEdit when the run does not succeed on it).
NoEdit == [ok |-> FALSE]

EditOutcome(task, reply) ==
  IF task.pc = "requestImageEdit"
    THEN LET response == imageResponse(reply, "imageEditFailed", "scene-images")
         IN IF ~response.ok \/ ~extractImageFromResponse(response.value).ok THEN NoEdit
            ELSE LET extracted == extractImageFromResponse(response.value).value
                 IN IF extracted.url.kind # "data" THEN NoEdit
                    ELSE [ok |-> TRUE, image |-> parseDataUrl(extracted.url),
                          token |-> extracted.token]
    ELSE IF fetchImageAsBase64(reply).ok
      THEN [ok |-> TRUE, image |-> fetchImageAsBase64(reply).value, token |-> task.token]
      ELSE NoEdit

\* An edit run ends in success on reply.
EditSucceedsOn(task, reply) ==
  /\ IsEditTask(task)
  /\ \/ /\ task.pc = "requestImageEdit" /\ reply \in EditReplies
        /\ requestImageEditSettledStep(task, reply)
     \/ /\ task.pc # "requestImageEdit" /\ reply \in EditDownloads
        /\ editedImageDownloadSettledStep(task, reply)
  /\ EditOutcome(task, reply).ok

\* The entry old has become new by an edit with instruction editPrompt that
\* got image and token.
EditedFrom(old, new, editPrompt, image, token) ==
  /\ new.id = old.id /\ new.title = old.title
  /\ new.prompt = EditedPrompt(old.prompt, editPrompt)
  /\ new.base64Data = image.base64 /\ new.mimeType = image.mimeType
  /\ new.token = IF token.t \in {"undef", "null"} THEN old.token ELSE token

\* C12: a successful edit of image id keeps sceneImages at the same length and
\* order and changes only the entry with that id: id and title stay, the
\* prompt is the prompt the entry had with the instruction appended, the
\* bytes and the MIME type are those of the response, the token is that of
\* the response if it has one and the token the entry had otherwise; every
\* other entry stays as it is.
C12_EditInPlace ==
  [][\A task \in BagToSet(tasks) : \A reply \in EditReplies \cup EditDownloads :
       EditSucceedsOn(task, reply) =>
         /\ OthersSame(sceneImages, sceneImages', task.image.id)
         /\ \A i \in 1..Len(sceneImages) :
              sceneImages[i].id = task.image.id =>
                EditedFrom(sceneImages[i], sceneImages'[i], task.editPrompt,
                           EditOutcome(task, reply).image, EditOutcome(task, reply).token)]_vars

\* The same with the asset the edit was invoked on in the place of the entry
\* the list holds when the edit ends.
EditOfInvokedAssetInPlace ==
  [][\A task \in BagToSet(tasks) : \A reply \in EditReplies \cup EditDownloads :
       EditSucceedsOn(task, reply) =>
         /\ OthersSame(sceneImages, sceneImages', task.image.id)
         /\ \A i \in 1..Len(sceneImages) :
              sceneImages[i].id = task.image.id =>
                EditedFrom(task.image, sceneImages'[i], task.editPrompt,
                           EditOutcome(task, reply).image, EditOutcome(task, reply).token)]_vars

\* The handler of feature k records error code code.
RecordsCode(k, code) == errors'[k] = [type |-> "code", code |-> code]

\* The error of the earliest failing check, the checks taken in the order API
\* key, passage (where the handler needs one), fields of the feature.
EarliestFailure(needsPassage, fieldsMissing, fieldCode) ==
  IF KeyEmpty THEN "missingApiKey"
  ELSE IF needsPassage /\ Blank(passage) THEN "missingPassage"
  ELSE IF fieldsMissing THEN fieldCode
  ELSE "ok"

\* A handler of feature k, invoked while one of its checks fails, records the
\* error of the earliest failing check.
ChecksInOrder(k, needsPassage, fieldsMissing, fieldCode) ==
  EarliestFailure(needsPassage, fieldsMissing, fieldCode) # "ok" =>
    RecordsCode(k, EarliestFailure(needsPassage, fieldsMissing, fieldCode))

\* C13: every feature handler checks its preconditions in the order API key
\* present, passage non-empty, required fields of the feature: when several
\* fail, the error recorded is that of the earliest failing check in this
\* order, and with no API key it is always the missing-key error.
C13_ValidationOrder ==
  [][/\ handleAnalysis => ChecksInOrder("analysis", TRUE, FALSE, "")
     /\ handleHistory => ChecksInOrder("history", TRUE, FALSE, "")
     /\ handleSceneIllustrations => ChecksInOrder("scene-images", TRUE, FALSE, "")
     /\ (handleSpacetimeAnalysis /\ showSpacetimeParams) =>
          ChecksInOrder("spacetime", TRUE, \E f \in SpacetimeCoreFields : Blank(form[f]),
                        "missingSpacetimeCore")
     /\ handleFillPassage =>
          ChecksInOrder("passage-fill", FALSE, Blank(author) \/ Blank(workTitle),
                        "missingAuthorWork")
     /\ handleSpacetimeAutofill =>
          ChecksInOrder("spacetime-fill", TRUE, Blank(author) /\ Blank(workTitle),
                        "missingSpacetimeInput")
     /\ (handleOpenAuthorChat /\ ~isAuthorChatOpen) =>
          ChecksInOrder("author-chat", TRUE, Blank(author), "missingChatAuthor")
     /\ (handleSendAuthorChat /\ ~Blank(chatDraft)) =>
          ChecksInOrder("author-chat", TRUE, Blank(author), "missingChatAuthor")]_vars

\* The part of C13 that concerns the handlers built on guardInputs alone and
\* the passage autofill.
ValidationOrderOfGuardedHandlers ==
  [][/\ handleAnalysis => ChecksInOrder("analysis", TRUE, FALSE, "")
     /\ handleHistory => ChecksInOrder("history", TRUE, FALSE, "")
     /\ handleSceneIllustrations => ChecksInOrder("scene-images", TRUE, FALSE, "")
     /\ (handleSpacetimeAnalysis /\ showSpacetimeParams) =>
          ChecksInOrder("spacetime", TRUE, \E f \in SpacetimeCoreFields : Blank(form[f]),
                        "missingSpacetimeCore")
     /\ handleFillPassage =>
          ChecksInOrder("passage-fill", FALSE, Blank(author) \/ Blank(workTitle),
                        "missingAuthorWork")]_vars

\* C14: computeImageCount returns an integer from 4 to 8 for every input,
\* whatever its sentence count and its character count.
C14_CountWithinFourToEight ==
  call.fn = "computeImageCount" => call.result \in 4..8

\* A long text of many sentences: the estimate is above 8 and the value is 8.
C14_Witness ==
  /\ call.fn = "computeImageCount"
  /\ call.sentences = MaxSentences /\ call.characters >= 600
  /\ call.type = "scene-images"
  /\ call.result = 8

\* C15: computeImageCount is monotonic non-decreasing in the character count:
\* with the sentence count (and the type) held fixed, the value for any
\* smaller character count is at most the value for the larger one.
C15_MonotoneInCharacters ==
  call.fn = "computeImageCount" =>
    \A fewer \in 0..call.characters :
      computeImageCount(call.sentences, fewer, call.type) <= call.result

\* With the sentence count fixed the value does grow with the character count.
C15_Witness ==
  /\ call.fn = "computeImageCount"
  /\ call.sentences = 4 /\ call.type = "scene-images"
  /\ call.result > computeImageCount(call.sentences, 0, call.type)

\* The spans of text that are well-formed JSON objects.
ObjectSpans(text) ==
  {span \in (1..Len(text)) \X (1..Len(text)) :
     /\ span[1] < span[2]
     /\ text[span[1]] = "{" /\ text[span[2]] = "}"
     /\ JSONparse(SubSeq(text, span[1], span[2])).ok}

\* The objects of text that lie in no other object of it.
TopLevelObjects(text) ==
  {span \in ObjectSpans(text) :
     \A other \in ObjectSpans(text) :
       (other[1] <= span[1] /\ span[2] <= other[2]) => other = span}

\* C16: for every reply text that holds exactly one well-formed JSON object,
\* with arbitrary prose before and after it, tryParseJson isolates the span of
\* that object and parses exactly that object.
C16_ParsesTheOneObject ==
  (call.fn = "tryParseJson" /\ Cardinality(TopLevelObjects(call.raw)) = 1) =>
     \A span \in TopLevelObjects(call.raw) :
       call.result = JSONparse(SubSeq(call.raw, span[1], span[2]))

\* The same for the texts whose prose holds no brace.
ParsesTheOneObjectInBraceFreeProse ==
  (call.fn = "tryParseJson" /\ Cardinality(TopLevelObjects(call.raw)) = 1) =>
     \A span \in TopLevelObjects(call.raw) :
       (\A i \in 1..Len(call.raw) :
          call.raw[i] \in {"{", "}"} => (span[1] <= i /\ i <= span[2]))
         => call.result = JSONparse(SubSeq(call.raw, span[1], span[2]))

\* The positions of text where a line break or a semicolon of either width
\* stands, and the two ends.
Cuts(text) ==
  {0, Len(text) + 1} \cup {i \in 1..Len(text) : text[i] \in {"\n", ";", "fw;"}}

RECURSIVE SegmentsAfter(_, _)
\* The non-empty trimmed segments of text between the cuts after position cut.
SegmentsAfter(text, cut) ==
  IF cut > Len(text) THEN <<>>
  ELSE LET next == SetMin({c \in Cuts(text) : c > cut})
           segment == Trim(SubSeq(text, cut + 1, next - 1))
       IN (IF segment = <<>> THEN <<>> ELSE <<segment>>) \o SegmentsAfter(text, next)

ListFieldCalls ==
  {"normalizeAnalysisResult", "normalizeHistoricalContext", "normalizeComparativeAnalysis"}

\* C17: every list field of every result type (explanation of the analysis,
\* recentEvents of the history, hallmarkWorks of the comparative result), when
\* the model supplies it as one delimiter-joined string, is normalized to the
\* list of its non-empty trimmed segments, split on line breaks and on
\* semicolons of either width.
C17_JoinedStringIsSplit ==
  call.fn \in ListFieldCalls => call.result = SegmentsAfter(call.text, 0)

\* The same for the two fields that go through normalizeStringArray.
JoinedStringIsSplitByNormalizeStringArray ==
  call.fn \in {"normalizeAnalysisResult", "normalizeHistoricalContext"} =>
    call.result = SegmentsAfter(call.text, 0)

\* C18: after a successful spacetime autofill each of the 11 fields of the
\* parameter form holds the suggested value if that suggestion is non-empty
\* and the value it had otherwise; after a failed autofill (a refused call, a
\* failed request, a reply without content) all 11 fields are as they were.
C18_AutofillKeepsUnsuggestedFields ==
  [][/\ Cardinality(DOMAIN form') = 11
     /\ handleSpacetimeAutofill => form' = form
     /\ \A task \in BagToSet(tasks) : \A reply \in SuggestionReplies :
          handleSpacetimeAutofillSettledStep(task, reply) =>
            LET result == generateSpacetimeSuggestions(reply)
            IN IF result.ok
                 THEN \A f \in FormFields :
                        form'[f] = IF result.value[f] # <<>> THEN result.value[f]
                                   ELSE form[f]
                 ELSE form' = form /\ NonEmptyError(errors'["spacetime-fill"])]_vars

\* An autofill has filled two fields and left the two fields alone for which
\* the reply held a blank string and null.
C18_Witness ==
  /\ form["focalName"] = <<"n">> /\ form["focalYears"] = <<"7">>
  /\ form["timeWindow"] = initialForm["timeWindow"]
  /\ form["audience"] = initialForm["audience"]
  /\ ~loading["spacetime-fill"] /\ errors["spacetime-fill"] = NoError

IsPrefix(earlier, later) ==
  Len(earlier) <= Len(later) /\ SubSeq(later, 1, Len(earlier)) = earlier

\* The turns a send puts into its request, given the log it has just stored.
OutboundTurns(log) == sanitizedTurns(historyForApi(log))

\* C19: the log of the author chat is append-only: every step leaves the log
\* it found as a prefix of the log it leaves (so every earlier value is a
\* prefix of every later one); a send that passes its checks appends exactly
\* one user message, a successful reply appends exactly one author message
\* after it, a refused send and a failed reply append nothing, and nothing
\* else writes the log; the turns of the request are the messages of the log,
\* one for one and in order, with role author sent as assistant and user as
\* user.
C19_ChatLogAppendOnly ==
  [][/\ IsPrefix(authorChatMessages, authorChatMessages')
     /\ handleSendAuthorChat =>
          IF Blank(chatDraft) \/ Blank(author) \/ KeyOrPassageMissing
            THEN authorChatMessages' = authorChatMessages
            ELSE /\ authorChatMessages' =
                      Append(authorChatMessages,
                             [role |-> "user", content |-> Trim(chatDraft)])
                 /\ Len(OutboundTurns(authorChatMessages')) = Len(authorChatMessages')
                 /\ \A i \in 1..Len(authorChatMessages') :
                      /\ OutboundTurns(authorChatMessages')[i].content =
                           authorChatMessages'[i].content
                      /\ OutboundTurns(authorChatMessages')[i].role =
                           (IF authorChatMessages'[i].role = "author" THEN "assistant"
                            ELSE "user")
     /\ \A task \in BagToSet(tasks) : \A reply \in AuthorReplies :
          handleSendAuthorChatSettledStep(task, reply) =>
            IF continueAuthorChat(reply).ok
              THEN /\ authorChatMessages' =
                        Append(authorChatMessages,
                               [role |-> "author", content |-> continueAuthorChat(reply).value])
                   /\ authorChatMessages[Len(authorChatMessages)].role = "user"
              ELSE authorChatMessages' = authorChatMessages
     /\ authorChatMessages' # authorChatMessages =>
          \/ handleSendAuthorChat
          \/ \E task \in BagToSet(tasks), reply \in AuthorReplies :
               handleSendAuthorChatSettledStep(task, reply)]_vars

\* A second question has been sent after the answer to the first: the log is
\* user, author, user and the request is pending.
C19_Witness ==
  /\ Len(authorChatMessages) = 3
  /\ authorChatMessages[1].role = "user" /\ authorChatMessages[2].role = "author"
  /\ authorChatMessages[3].role = "user"
  /\ loading["author-chat"] /\ tasks # EmptyBag

\* The features whose request goes through requestChatCompletion, with the
\* replies each can get, the call each makes and the step that settles it.
JsonFeatures ==
  {"analysis", "history", "spacetime", "passage-fill", "spacetime-fill", "scene-images"}

JsonReplies ==
  [k \in JsonFeatures |->
     CASE k = "analysis" -> AnalysisReplies
       [] k = "history" -> HistoryReplies
       [] k = "spacetime" -> ComparativeReplies
       [] k = "passage-fill" -> PassageReplies
       [] k = "spacetime-fill" -> SuggestionReplies
       [] k = "scene-images" -> SceneListReplies]

CompletionOf(k, reply) ==
  CASE k = "analysis" -> requestChatCompletion(reply, "analysis", FallbackAnalysis)
    [] k = "history" -> requestChatCompletion(reply, "history", FallbackHistory)
    [] k = "spacetime" ->
         requestChatCompletion(reply, "comparative-analysis", FallbackComparative)
    [] k = "passage-fill" -> requestChatCompletion(reply, "passage-fill", FallbackPassage)
    [] k = "spacetime-fill" ->
         requestChatCompletion(reply, "spacetime-hints", FallbackSpacetime)
    [] k = "scene-images" -> requestChatCompletion(reply, "image-prompts", FallbackScenes)

CompletionSettles(k, task, reply) ==
  CASE k = "analysis" -> handleAnalysisSettledStep(task, reply)
    [] k = "history" -> handleHistorySettledStep(task, reply)
    [] k = "spacetime" -> handleSpacetimeAnalysisSettledStep(task, reply)
    [] k = "passage-fill" -> handleFillPassageSettledStep(task, reply)
    [] k = "spacetime-fill" -> handleSpacetimeAutofillSettledStep(task, reply)
    [] k = "scene-images" -> generateImagePromptsSettledStep(task, reply)

\* The text extracted from a reply with a 2xx status and a readable body.
ReplyText(reply) == extractTextContent(MessageContent(reply.data.message))

HasText(reply) ==
  /\ reply.net = "resp" /\ ResponseOk(reply) /\ reply.data.valid
  /\ ReplyText(reply).kind # "empty"

\* The text as a whole is not a JSON document.
NotValidJson(reply) == HasText(reply) /\ ReplyText(reply).kind # "json"

\* No JSON object can be taken out of the text: it holds no document, or its
\* document is not an object.
HoldsNoObject(reply) ==
  /\ HasText(reply)
  /\ ~(ReplyText(reply).kind \in {"json", "wrapped"} /\ ReplyText(reply).value.t = "obj")

NotValidJsonReplies == [k \in JsonFeatures |-> {reply \in JsonReplies[k] : NotValidJson(reply)}]
NoObjectReplies == [k \in JsonFeatures |-> {reply \in JsonReplies[k] : HoldsNoObject(reply)}]

\* requestChatCompletion raises the ModelJsonError that carries the whole
\* extracted text, and the run of feature k ends with an error under k and
\* the stored result as it was.
ParseFailure(k, reply) ==
  /\ LET raised == CompletionOf(k, reply)
     IN /\ ~raised.ok
        /\ raised.error.name = "ModelJsonError"
        /\ raised.error.rawContent = ReplyText(reply)
  /\ KeepsResult(k)

EditPromptOf(image) ==
  Trim(IF Has(editValues, image.id) THEN editValues[image.id] ELSE <<>>)

\* C21: an edit of an image without a continuation token (prompt given) fails
\* at once: an error is recorded under scene-images, no request is issued (no
\* run is left waiting for a reply) and the list of assets is as it was.
C21_TokenlessEditRefused ==
  [][\A image \in CallImages :
       (/\ handleEditImage(image)
        /\ Truthy(EditPromptOf(image))
        /\ ~JTruthy(image.token))
       => /\ NonEmptyError(errors'["scene-images"])
          /\ tasks' = tasks
          /\ sceneImages' = sceneImages]_vars

\* The scenes member of the object the prompt request was answered with, when
\* it was answered with one.
ReturnedObject(reply) == requestChatCompletion(reply, "image-prompts", FallbackScenes)

ReturnsScenes(reply) ==
  /\ ReturnedObject(reply).ok
  /\ IsArr(Field(ReturnedObject(reply).value, "scenes"))
  /\ Len(Field(ReturnedObject(reply).value, "scenes").v) > 0

ReturnedScenes(reply) == Field(ReturnedObject(reply).value, "scenes").v

\* A run of the illustration pipeline is waiting at an await.
PipelinePending(bag) ==
  \E t \in BagToSet(bag) : t.feature = "scene-images" /\ "scenes" \in DOMAIN t

\* The asset generateIllustrations makes of the scene at position i.
AssetOfScene(asset, scene, i) ==
  /\ asset.id = AssetId("scene-images", i)
  /\ asset.prompt = Trim(Field(scene, "prompt").v)
  /\ asset.title = IF JTruthy(Field(scene, "title")) THEN Field(scene, "title")
                   ELSE DefaultTitle(i)

\* C22: the illustration run works on the first min(n, 8) of the n scenes the
\* prompt request returned, and when it returns its assets are one per such
\* scene, in scene order, with ids <type>-1 .. <type>-k; when the prompt
\* request returns no scene (or no scenes array) the run fails there, with no
\* image request issued.
C22_OneAssetPerKeptScene ==
  [][\A task \in BagToSet(tasks) :
       /\ \A reply \in LongSceneReplies :
            generateImagePromptsSettledStep(task, reply) =>
              IF ReturnsScenes(reply)
                THEN LET n == Len(ReturnedScenes(reply))
                         k == Min(n, 8)
                     IN \A next \in BagToSet(tasks') :
                          /\ Len(next.scenes) = k
                          /\ next.scenes = SubSeq(ReturnedScenes(reply), 1, k)
                ELSE /\ ~PipelinePending(tasks')
                     /\ NonEmptyError(errors'["scene-images"])
                     /\ sceneImages' = sceneImages
       /\ \A reply \in PipelineImageReplies :
            (/\ requestImageGenerationSettledStep(task, reply)
             /\ requestImageGeneration(task, reply).kind = "resolved") =>
              /\ Len(sceneImages') = Len(task.scenes)
              /\ \A i \in 1..Len(sceneImages') :
                   AssetOfScene(sceneImages'[i], task.scenes[i], i)
              /\ \A i, j \in 1..Len(sceneImages') :
                   i # j => sceneImages'[i].id # sceneImages'[j].id]_vars

\* A run answered with more scenes than are kept has returned: one asset for
\* each of the first eight scenes.
C22_Witness ==
  /\ Len(sceneImages) = 8
  /\ \A i \in 1..8 : AssetOfScene(sceneImages[i], NumberedScene(i), i)
  /\ tasks = EmptyBag /\ ~loading["scene-images"]

\* The image URL held at each of the four places of a message, in the order
\* the extractor reads them: first entry of the images array, first inline
\* image item of the content, data URI inside string content, url field.
ImageLocations(message) ==
  << IF Len(message.images) > 0 THEN normalizeImageUrl(message.images[1]) ELSE NoUrl,
     IF message.content.t = "arr"
       THEN normalizeImageUrl(FirstImageItem(message.content.v)) ELSE NoUrl,
     IF message.content.t = "str" /\ message.content.v.kind = "datauri"
       THEN message.content.v.value ELSE NoUrl,
     message.url >>

HoldsImage(message) == \E l \in 1..4 : UrlTruthy(ImageLocations(message)[l])

\* C23: the retry decision of requestImageGeneration agrees with the
\* extractor: an attempt is followed by a retry only if its response holds no
\* image at any of the four places, and a response that holds one is taken on
\* that attempt (no retry, no missing-image error).
C23_RetryAgreesWithExtractor ==
  [][\A task \in PipelineRuns :
       \A reply \in {r \in ImageReplies :
                       r.net = "resp" /\ ResponseOk(r) /\ r.data.valid
                       /\ r.data.message.present} :
         requestImageGenerationSettledStep(task, reply) =>
           LET retried == \E next \in BagToSet(tasks') : next.pc = "retryDelay"
           IN /\ retried => ~HoldsImage(reply.data.message)
              /\ HoldsImage(reply.data.message) =>
                   /\ ~retried
                   /\ errors'["scene-images"] = errors["scene-images"]]_vars

\* C24: undo is one level deep.  An edit attempt on an asset (prompt given)
\* stores that asset, as it is when the attempt starts, as the snapshot of its
\* id, replacing the one held before; nothing but an edit attempt and a revert
\* changes the snapshots; a revert puts the snapshot back and removes it, and
\* a revert of an id without a snapshot changes nothing.  So after two
\* successive edits the snapshot is the asset the first edit produced, and
\* that is what a revert yields.
C24_OneLevelUndo ==
  [][/\ \A image \in CallImages :
          (handleEditImage(image) /\ Truthy(EditPromptOf(image)))
            => previousImages' = Put(previousImages, image.id, image)
     /\ previousImages' # previousImages =>
          \E image \in CallImages : handleEditImage(image) \/ handleRevertImage(image.id)
     /\ \A image \in CallImages :
          handleRevertImage(image.id) =>
            IF Has(previousImages, image.id)
              THEN /\ RevertRestores(image.id, previousImages[image.id])
                   /\ previousImages' = Delete(previousImages, image.id)
              ELSE UNCHANGED vars]_vars

\* Two edits of the first card have succeeded and a revert has followed: the
\* card shows the asset the first edit produced, once edited, and holds no
\* snapshot.
C24_Witness ==
  /\ edits = 2 /\ tasks = EmptyBag
  /\ Len(sceneImages) > 0
  /\ Cardinality({i \in 1..Len(sceneImages[1].prompt) : sceneImages[1].prompt[i] = "\n"}) = 1
  /\ ~Has(previousImages, sceneImages[1].id)
  /\ Has(editLoading, sceneImages[1].id)
  /\ errors["scene-images"] = NoError

\* A run of generateIllustrations (not of an edit) is waiting in bag.
IllustrationPending(bag) ==
  \E t \in BagToSet(bag) : t.feature = "scene-images" /\ ~IsEditTask(t)

\* What a step of the illustration run does to the page, given where the run
\* gets to: a failure ends the run with an error under scene-images, with
\* loading off, nothing of the run left waiting and the stored list untouched;
\* a step that goes on to the next await leaves the stored list untouched.
AllOrNothing(outcome) ==
  CASE outcome.kind = "rejected" ->
         /\ sceneImages' = sceneImages
         /\ NonEmptyError(errors'["scene-images"])
         /\ ~loading'["scene-images"]
         /\ ~IllustrationPending(tasks')
    [] outcome.kind = "await" ->
         sceneImages' = sceneImages /\ IllustrationPending(tasks')
    [] OTHER -> TRUE

C26_EditWrittenOntoItsSource ==
  [][\A task \in BagToSet(tasks) : \A reply \in EditReplies \cup EditDownloads :
       EditSucceedsOn(task, reply) =>
         \A i \in 1..Len(sceneImages) :
           sceneImages'[i] # sceneImages[i] => sceneImages[i] = task.image]_vars

\* C27: an asset that a successful edit has put into the list has its
\* pre-edit version held as the snapshot of its id, in every interleaving of
\* edits and reverts: at the step on which an edit is applied, the snapshot of
\* the id is present and is the entry the edit replaces.
C27_AppliedEditHasSnapshot ==
  [][\A task \in BagToSet(tasks) : \A reply \in EditReplies \cup EditDownloads :
       EditSucceedsOn(task, reply) =>
         \A i \in 1..Len(sceneImages) :
           sceneImages[i].id = task.image.id =>
             /\ Has(previousImages', task.image.id)
             /\ previousImages'[task.image.id] = sceneImages[i]]_vars

\* The illustration run of task returns on this step and its list is stored.
IllustrationsStored(task) ==
  \/ \E reply \in ImageReplies :
       /\ requestImageGenerationSettledStep(task, reply)
       /\ requestImageGeneration(task, reply).kind = "resolved"
  \/ \E reply \in DownloadReplies :
       /\ fetchImageAsBase64SettledStep(task, reply)
       /\ fetchImageAsBase64(reply).ok
       /\ PushAsset(task, fetchImageAsBase64(reply).value, task.token).kind = "resolved"

\* C28: a snapshot belongs to the generation of the asset stored under its id:
\* once a new list of illustrations is stored, no card of it has a snapshot
\* left from the list before, so no revert can put an asset of the previous
\* generation back.
C28_SnapshotsOfCurrentGeneration ==
  [][\A task \in BagToSet(tasks) :
       IllustrationsStored(task) =>
         \A i \in 1..Len(sceneImages') : ~Has(previousImages', sceneImages'[i].id)]_vars

\* An edit run ends in failure on reply.
EditFailsOn(task, reply) ==
  /\ IsEditTask(task)
  /\ \/ /\ task.pc = "requestImageEdit" /\ reply \in EditReplies
        /\ requestImageEditSettledStep(task, reply)
     \/ /\ task.pc # "requestImageEdit" /\ reply \in EditDownloads
        /\ editedImageDownloadSettledStep(task, reply)
  /\ ~EditOutcome(task, reply).ok
  /\ ~(\E next \in BagToSet(tasks') : IsEditTask(next) /\ next.image.id = task.image.id)

\* C29: an edit that fails leaves sceneImages, the draft of its card and the
\* snapshots as they were before it was triggered, so it creates no snapshot:
\* the step on which it fails writes none of the three, and when the edit is
\* the first one ever started (no snapshot existed before it) its card has no
\* snapshot once it has failed.
C29_FailedEditLeavesNoSnapshot ==
  [][\A task \in BagToSet(tasks) : \A reply \in EditReplies \cup EditDownloads :
       EditFailsOn(task, reply) =>
         /\ sceneImages' = sceneImages
         /\ editValues' = editValues
         /\ previousImages' = previousImages
         /\ ~IsEditLoading(task.image.id)'
         /\ NonEmptyError(errors'["scene-images"])
         /\ edits = 1 => ~Has(previousImages', task.image.id)]_vars

RECURSIVE SumRequests(_)
SumRequests(log) == IF log = <<>> THEN 0 ELSE Head(log).requests + SumRequests(Tail(log))

\* The chat-completion requests a run of the pipeline has issued so far: the
\* prompt request and the image requests of the scenes begun.
RequestsIssued(task) ==
  IF "log" \in DOMAIN task THEN 1 + SumRequests(task.log) ELSE 1

PromptRequestsPending(bag) ==
  Cardinality({t \in BagToSet(bag) : t.pc = "generateImagePrompts"})

\* C30: one trigger of the illustration pipeline issues one prompt request
\* (a prompt request is issued by the trigger and by no step of the run), at
\* most 3 image requests for each of at most 8 scenes, so at most 25
\* chat-completion requests, and once its requests are answered and its
\* delays have passed the run finishes, with its list stored or an error
\* recorded.
C30_FinishesWithinTwentyFiveRequests ==
  /\ [](\A task \in BagToSet(tasks) :
          /\ RequestsIssued(task) <= 25
          /\ "log" \in DOMAIN task =>
               /\ Len(task.log) <= 8
               /\ \A i \in 1..Len(task.log) : task.log[i].requests <= 3)
  /\ [][PromptRequestsPending(tasks') > PromptRequestsPending(tasks)
          => handleSceneIllustrations]_vars
  /\ [][PipelineSettles => PromptRequestsPending(tasks') = 0]_vars
  /\ (loading["scene-images"] ~> ~loading["scene-images"])

\* A run has issued all the requests it can: the prompt request and three
\* image requests for each of eight scenes.
C30_Witness ==
  \E task \in BagToSet(tasks) :
    /\ "log" \in DOMAIN task
    /\ Len(task.log) = 8
    /\ \A i \in 1..8 : task.log[i].requests = 3
    /\ RequestsIssued(task) = 25
====
